---- MODULE Spec2Model ----
(***************************************************************************)
(* A model of two workflows of the transport back-office application:      *)
(*   - the weekly driver-pay page (DriverPayPage): week navigation, load,   *)
(*     manual day entries, clear, hours edit and syncFromCompletedJobs;     *)
(*   - the route planning modal (RouteModal.confirm) with the two API       *)
(*     routes it calls (geocode, route-miles).                              *)
(* Every async handler is cut at its awaits: one action per awaited         *)
(* response.  A handler reads the values of the render in which it was      *)
(* invoked (its closure), so these are captured when the handler starts.    *)
(***************************************************************************)
EXTENDS Integers, Sequences, FiniteSets, TLC

VARIABLES
    \* ---- the database (driver-pay tables and view)
    store,        \* driver_day_entries: key -> <<>> (no row) or <<entry>>
    jobDays,      \* v_driver_completed_job_days: set of signal rows
    \* ---- DriverPayPage component state
    weekStart,    \* day number of the Monday of the selected week
    drivers,      \* loaded driver ids
    entries,      \* loaded day entries, as entriesByDriverDate: key -> option
    busy,
    error,
    open,
    activeDriver, \* <<>> or <<driver id>>
    savingDay,
    syncingJobs,
    \* ---- DriverPayPage handlers in flight
    loads,        \* set of load() calls in flight
    sync,         \* the syncFromCompletedJobs call
    day,          \* the upsertDayEntry / clearDayEntry / updateWorkHours call
    \* ---- bookkeeping of the driver-pay runs
    ops,          \* number of user operations so far
    hist,         \* what the last sync step did
    \* ---- the paid checkpoint of the driver-pay page
    payrollDb,    \* driver_week_payroll: <<driver, week_start>> -> <<>> or <<row>>
    payroll,      \* loaded payroll rows, as payrollByDriver: driver -> option
    savingPaid,   \* <<>> or <<driver id>>
    paidCalls,    \* set of setPaid() calls in flight
    \* ---- RouteModal component state
    collection,   \* DraftStop
    stops,        \* sequence of DraftStop
    delivery,     \* DraftStop
    rBusy,
    rError,
    conf,         \* the confirm() call
    \* ---- AddJobModal state the RouteModal is given
    routeOpen,
    routeStops,   \* sequence of RouteStopFinal
    routeMiles,
    \* ---- bookkeeping of the RouteModal runs
    rOps,         \* number of user operations so far
    delivered,    \* number of onConfirm calls
    geoCalls,     \* number of requests sent to /api/geocode
    milesCalls,   \* number of requests sent to /api/route-miles
    rhist,        \* what the last confirm() did
    \* ---- AddJobModal.save and the job_stops table
    jobDb,        \* the rows of the job in jobs, job_allocations and job_stops
    form,         \* the form of AddJobModal: isEdit and its fields
    save,         \* the save() call
    sBusy,
    sError,
    \* ---- driver_day_entries with the owner of each row
    rows,         \* <<owner, driver, date>> -> <<>> (no row) or <<entry>>
    \* ---- an application of a pure function
    calc          \* its input and its results

paidVars == <<payrollDb, payroll, savingPaid, paidCalls>>

payVars == <<store, jobDays, weekStart, drivers, entries, busy, error, open, activeDriver, savingDay, syncingJobs, loads, sync, day, ops, hist, paidVars>>

routeVars == <<collection, stops, delivery, rBusy, rError, conf, routeOpen, routeStops, routeMiles, rOps, delivered, geoCalls, milesCalls, rhist>>

otherVars == <<jobDb, form, save, sBusy, sError, rows, calc>>

vars == <<payVars, paidVars, routeVars, otherVars>>

----------------------------------------------------------------------------
(* Options: <<>> is null / undefined / absent, <<x>> is the value x.         *)

None == <<>>

Some(x) == <<x>>

IsSome(o) == o # <<>>

----------------------------------------------------------------------------
(* Bounds of the model.                                                      *)

\* user operations (clicks, edits) per run of the driver-pay page
MaxOps == 3

\* user operations (clicks, edits) per run of the route modal
MaxRouteOps == 4

----------------------------------------------------------------------------
(* Driver-pay data.                                                          *)

DaysPerWeek == 7

DefaultLeaveHours == 8

Drivers == {"d1", "d2"}

PayTypeOf(d) == IF d = "d1" THEN "hourly" ELSE "shift"

\* the weeks the navigation moves between: the current and the next one
WeekStarts == {0, DaysPerWeek}

\* the days of a week on which the model's inputs fall
DayOffsets == {0}

Dates == {w + o : w \in WeekStarts, o \in DayOffsets}

Keys == Drivers \X Dates

weekDates(ws) == {ws + i : i \in 0..(DaysPerWeek - 1)}

weekEnd(ws) == ws + (DaysPerWeek - 1)

InWeek(date, ws) == date >= ws /\ date <= weekEnd(ws)

\* err.message of an error the backing service returns
ErrorText == "service error"

\* A string is modelled as the sequence of its lexemes (words), Blank being
\* a run of white space.
Blank == " "

AutoNote == <<"Auto:", "from completed job">>

RECURSIVE trimStart(_)
trimStart(s) == IF s # <<>> /\ Head(s) = Blank THEN trimStart(Tail(s)) ELSE s

RECURSIVE trimEnd(_)
trimEnd(s) == IF s # <<>> /\ s[Len(s)] = Blank THEN trimEnd(SubSeq(s, 1, Len(s) - 1)) ELSE s

trim(s) == trimEnd(trimStart(s))

toLowerLex(x) == CASE x = "Manual:" -> "manual:" [] x = "MANUAL:" -> "manual:" [] x = "Auto:" -> "auto:" [] x = "Work" -> "work" [] x = "Leave" -> "leave" [] x = "Off" -> "off" [] x = "Sick" -> "sick" [] x = "(Standby)" -> "(standby)" [] OTHER -> x

toLowerCase(s) == [i \in 1..Len(s) |-> toLowerLex(s[i])]

startsWith(s, lex) == s # <<>> /\ Head(s) = lex

\* existing?.notes?.trim().toLowerCase().startsWith("manual:") of an entry option
IsManualNote(eo) == /\ IsSome(eo)
                    /\ IsSome(eo[1].notes)
                    /\ startsWith(toLowerCase(trim(eo[1].notes[1])), "manual:")

isProtectedStatus(s) == s = "leave" \/ s = "off" \/ s = "sick"

ManualReasons == {"Standby"}

ManualFreeTexts == {<<>>}

\* buildManualNote(kind, reason, free): parts joined by single spaces
buildManualNote(kind, reason, free) ==
    LET r == reason
        t == trim(free)
        p1 == <<"Manual:", kind>>
        p2 == IF r # "" /\ r # "Other" THEN <<"(" \o r \o ")">> ELSE <<>>
        p3 == IF r = "Other" /\ t # <<>> THEN <<"(">> \o t \o <<")">>
              ELSE IF t # <<>> THEN <<"--">> \o t ELSE <<>>
    IN  p1 \o p2 \o p3

KindLabel(status) == CASE status = "work" -> "Work" [] status = "leave" -> "Leave" [] status = "off" -> "Off" [] status = "sick" -> "Sick"

Statuses == {"work", "leave", "off", "sick"}

\* a DayEntry row (id, driver_id and entry_date are the key)
Entry(status, shifts, hours, notes) == [status |-> status, shifts |-> shifts, hours |-> hours, notes |-> notes]

\* the payload syncFromCompletedJobs upserts
AutoWorkEntry == Entry("work", 1, None, Some(AutoNote))

EmptyTable == [k \in Keys |-> None]

\* supabase upsert with onConflict: the row of the key is replaced
Upsert(tbl, k, e) == [tbl EXCEPT ![k] = Some(e)]

\* supabase delete().eq(driver_id).eq(entry_date)
Delete(tbl, k) == [tbl EXCEPT ![k] = None]

\* select ... gte(entry_date, s) lte(entry_date, e), as entriesByDriverDate
SelectWeek(tbl, ws) == [k \in Keys |-> IF InWeek(k[2], ws) THEN tbl[k] ELSE None]

\* entriesByDriverDate.get(key), for keys the tables of the model do not hold too
getEntry(snap, k) == IF k \in DOMAIN snap THEN snap[k] ELSE None

----------------------------------------------------------------------------
(* Driver-pay page: initial state.                                           *)

\* rows the day-entry table may hold when the page is opened
SeedEntries == {Entry("leave", 1, None, Some(<<"Manual:", "Leave", "(Standby)">>)), Entry("work", 1, None, Some(<<"Manual:", "Work", "(Standby)">>)), AutoWorkEntry}

\* the first driver's first day holds one of them, or no row
SeedStores == {[EmptyTable EXCEPT ![<<"d1", 0>>] = eo] : eo \in {None} \cup {Some(e) : e \in SeedEntries}}

\* a row of v_driver_completed_job_days
Signal(d, date) == [driver_id |-> d, entry_date |-> date]

AllSignals == {Signal(Some(k[1]), k[2]) : k \in Keys}

\* contents of the view: every driver on every day but the last, and a row of
\* a job that has no driver
JobDaySeeds == {(AllSignals \ {Signal(Some("d2"), DaysPerWeek)}) \cup {Signal(None, 0)}}

\* driver_week_payroll without rows
EmptyPayroll == [k \in Drivers \X WeekStarts |-> None]

\* payrollByDriver of an empty payroll
NoPayroll == [d \in Drivers |-> None]

\* a row of driver_week_payroll: paid_at is the time of the write when paid
PayrollRow(ws, paid) == [week_start |-> ws, paid |-> paid, paid_at |-> IF paid THEN Some("now") ELSE None]

\* the driver_week_payroll query of load(): eq("week_start", s)
SelectPayroll(tbl, ws) == [d \in Drivers |-> tbl[<<d, ws>>]]

SyncIdle == [pc |-> "idle", ws |-> 0, snap |-> EmptyTable, list |-> <<>>, i |-> 0]

DayIdle == [pc |-> "idle", kind |-> "none", k |-> <<"d1", 0>>, payload |-> AutoWorkEntry, ws |-> 0]

\* what is recorded of the last sync run: its last event, the key and the row
\* its last upsert replaced, the number of its upserts, and the week of the
\* run before it with the store as that run left it (None when the store or
\* the week has changed since); and the keys whose last write from the
\* details modal was the delete of clearDayEntry, and those of them whose
\* clearDayEntry had returned when the run started
HistNone == [ev |-> "none", k |-> <<"d1", 0>>, before |-> None, n |-> 0, base |-> None, cleared |-> {}, clearedBefore |-> {}]

\* load() up to its first await: setBusy(true), setError(null), s and e read
NewLoad(owner, ws) == [owner |-> owner, ws |-> ws, pc |-> "queries", rows |-> EmptyTable]

PayInit ==
    /\ store \in SeedStores
    /\ jobDays \in JobDaySeeds
    /\ weekStart = 0
    /\ drivers = {}
    /\ entries = EmptyTable
    /\ busy = TRUE
    /\ error = None
    /\ open = FALSE
    /\ activeDriver = None
    /\ savingDay = FALSE
    /\ syncingJobs = FALSE
    /\ loads = {NewLoad("effect", 0)}
    /\ sync = SyncIdle
    /\ day = DayIdle
    /\ payrollDb = EmptyPayroll
    /\ payroll = NoPayroll
    /\ savingPaid = None
    /\ paidCalls = {}
    /\ ops = 0
    /\ hist = HistNone

----------------------------------------------------------------------------
(* load(): the drivers and the entries query, then the payroll query.  The   *)
(* drivers table is written by no action, so its query and the entries       *)
(* query are one step: a failure of either ends load() the same way.         *)

\* what the caller of load() does once load() has returned (its finally block)
AfterLoad(l, ok) ==
    /\ sync' = IF l.owner = "sync" THEN SyncIdle ELSE sync
    /\ syncingJobs' = IF l.owner = "sync" THEN FALSE ELSE syncingJobs
    /\ day' = IF l.owner = "day" THEN DayIdle ELSE day
    /\ savingDay' = IF l.owner = "day" THEN FALSE ELSE savingDay
    /\ hist' = IF l.owner = "sync" THEN [hist EXCEPT !.ev = IF ok THEN "reloaded" ELSE "reloadFailed", !.base = Some([store |-> store, ws |-> l.ws])] ELSE hist
    /\ savingPaid' = IF l.owner = "paid" THEN None ELSE savingPaid

\* the catch and finally blocks of load()
LoadFailed(l) ==
    /\ drivers' = {}
    /\ entries' = EmptyTable
    /\ payroll' = NoPayroll
    /\ error' = Some(ErrorText)
    /\ busy' = FALSE
    /\ loads' = loads \ {l}
    /\ AfterLoad(l, FALSE)

LoadQueries(l) ==
    /\ l \in loads
    /\ l.pc = "queries"
    /\ \/ /\ loads' = (loads \ {l}) \cup {[l EXCEPT !.pc = "payroll", !.rows = SelectWeek(store, l.ws)]}
          /\ UNCHANGED <<drivers, entries, payroll, savingPaid, busy, error, sync, syncingJobs, day, savingDay, hist>>
       \/ LoadFailed(l)
    /\ UNCHANGED <<store, jobDays, weekStart, open, activeDriver, ops, payrollDb, paidCalls, routeVars, otherVars>>

LoadPayroll(l) ==
    /\ l \in loads
    /\ l.pc = "payroll"
    /\ \/ /\ drivers' = Drivers
          /\ entries' = l.rows
          /\ payroll' = SelectPayroll(payrollDb, l.ws)
          /\ busy' = FALSE
          /\ loads' = loads \ {l}
          /\ AfterLoad(l, TRUE)
          /\ UNCHANGED error
       \/ LoadFailed(l)
    /\ UNCHANGED <<store, jobDays, weekStart, open, activeDriver, ops, payrollDb, paidCalls, routeVars, otherVars>>

----------------------------------------------------------------------------
(* Week navigation: setWeekStart, then the effect on weekStart runs load().   *)

SetWeek(ws) ==
    /\ ops < MaxOps
    /\ ws \in WeekStarts
    /\ ws # weekStart
    /\ weekStart' = ws
    /\ busy' = TRUE
    /\ error' = None
    /\ loads' = loads \cup {NewLoad("effect", ws)}
    /\ ops' = ops + 1
    /\ UNCHANGED <<store, jobDays, drivers, entries, open, activeDriver, savingDay, syncingJobs, sync, day, hist, paidVars, routeVars, otherVars>>

prevWeek == SetWeek(weekStart - DaysPerWeek)

nextWeek == SetWeek(weekStart + DaysPerWeek)

----------------------------------------------------------------------------
(* syncFromCompletedJobs.                                                    *)

\* supabase.auth.getUser(): a user, an error, or no session
AuthOutcomes == {"user", "authErr", "noUser"}

AuthMessage(o) == IF o = "authErr" THEN ErrorText ELSE "Auth session missing. Please log in again."

RECURSIVE SortedByDate(_)
SortedByDate(q) == Len(q) <= 1 \/ (q[1].entry_date <= q[2].entry_date /\ SortedByDate(Tail(q)))

\* the rows of the view in [ws, weekEnd], ordered by entry_date ascending
\* (rows of one date come in any order)
SignalLists(ws) ==
    LET S == {g \in jobDays : InWeek(g.entry_date, ws)}
    IN  {q \in [1..Cardinality(S) -> S] : (\A g \in S : \E i \in 1..Cardinality(S) : q[i] = g) /\ SortedByDate(q)}

\* the skip rules with one more: a day that has no entry is skipped
NeedsUpsertOfStoredDay(r, snap) ==
    LET existing == IF IsSome(r.driver_id) THEN getEntry(snap, <<r.driver_id[1], r.entry_date>>) ELSE None
    IN  /\ IsSome(r.driver_id)
        /\ IsSome(existing)
        /\ ~(IsSome(existing) /\ isProtectedStatus(existing[1].status))
        /\ ~IsManualNote(existing)
        /\ ~(IsSome(existing) /\ existing[1].status = "work")

\* the skip rules of the loop body: TRUE when the body reaches the upsert
NeedsUpsert(r, snap) ==
    LET existing == IF IsSome(r.driver_id) THEN getEntry(snap, <<r.driver_id[1], r.entry_date>>) ELSE None
    IN  /\ IsSome(r.driver_id)
        /\ ~(IsSome(existing) /\ isProtectedStatus(existing[1].status))
        /\ ~IsManualNote(existing)
        /\ ~(IsSome(existing) /\ existing[1].status = "work")

\* the loop run from position i without awaiting: the position of the next
\* row whose body reaches the upsert, Len(list) + 1 when the loop ends
RECURSIVE NextUpsert(_, _, _)
NextUpsert(list, i, snap) == IF i > Len(list) THEN i ELSE IF NeedsUpsert(list[i], snap) THEN i ELSE NextUpsert(list, i + 1, snap)

SignalKey(r) == <<r.driver_id[1], r.entry_date>>

\* the catch and finally blocks of syncFromCompletedJobs
SyncFailed(msg) ==
    /\ error' = Some(msg)
    /\ syncingJobs' = FALSE
    /\ sync' = SyncIdle

\* the loop over list goes on at position i: the next upsert is sent, or
\* the loop ends and load() starts
SyncContinue(list, i) ==
    LET j == NextUpsert(list, i, sync.snap)
    IN  IF j <= Len(list)
        THEN /\ sync' = [sync EXCEPT !.pc = "upsert", !.list = list, !.i = j]
             /\ UNCHANGED <<loads, busy, error>>
        ELSE /\ sync' = [sync EXCEPT !.pc = "load", !.list = list, !.i = j]
             /\ loads' = loads \cup {NewLoad("sync", sync.ws)}
             /\ busy' = TRUE
             /\ error' = None

\* the Sync button (disabled while syncingJobs)
SyncClick ==
    /\ ~syncingJobs
    /\ ops < MaxOps
    /\ syncingJobs' = TRUE
    /\ error' = None
    /\ sync' = [pc |-> "auth", ws |-> weekStart, snap |-> entries, list |-> <<>>, i |-> 0]
    /\ ops' = ops + 1
    /\ hist' = [HistNone EXCEPT !.base = IF hist.base = Some([store |-> store, ws |-> weekStart]) THEN hist.base ELSE None, !.cleared = hist.cleared, !.clearedBefore = IF day.pc = "idle" THEN hist.cleared ELSE {}]
    /\ UNCHANGED <<store, jobDays, weekStart, drivers, entries, busy, open, activeDriver, savingDay, loads, day, paidVars, routeVars, otherVars>>

SyncAuth ==
    /\ sync.pc = "auth"
    /\ \E o \in AuthOutcomes :
          IF o = "user"
          THEN sync' = [sync EXCEPT !.pc = "query"] /\ UNCHANGED <<error, syncingJobs, hist>>
          ELSE SyncFailed(AuthMessage(o)) /\ hist' = [hist EXCEPT !.ev = "failed"]
    /\ UNCHANGED <<store, jobDays, weekStart, drivers, entries, busy, open, activeDriver, savingDay, loads, day, ops, paidVars, routeVars, otherVars>>

SyncQuery ==
    /\ sync.pc = "query"
    /\ \/ \E q \in SignalLists(sync.ws) :
             /\ SyncContinue(q, 1)
             /\ hist' = [hist EXCEPT !.ev = "listed"]
             /\ UNCHANGED syncingJobs
       \/ /\ SyncFailed(ErrorText)
          /\ hist' = [hist EXCEPT !.ev = "failed"]
          /\ UNCHANGED <<loads, busy>>
    /\ UNCHANGED <<store, jobDays, weekStart, drivers, entries, open, activeDriver, savingDay, day, ops, paidVars, routeVars, otherVars>>

\* SyncUpsert without "if (upErr) throw upErr": the loop goes on
SyncUpsertIgnoringError ==
    /\ sync.pc = "upsert"
    /\ LET k == SignalKey(sync.list[sync.i])
       IN  \/ /\ store' = Upsert(store, k, AutoWorkEntry)
              /\ hist' = [hist EXCEPT !.ev = "wrote", !.k = k, !.before = store[k], !.n = hist.n + 1]
              /\ SyncContinue(sync.list, sync.i + 1)
              /\ UNCHANGED syncingJobs
           \/ /\ hist' = [hist EXCEPT !.ev = "upsertFailed", !.k = k]
              /\ SyncContinue(sync.list, sync.i + 1)
              /\ UNCHANGED <<store, syncingJobs>>
    /\ UNCHANGED <<jobDays, weekStart, drivers, entries, open, activeDriver, savingDay, day, ops, paidVars, routeVars, otherVars>>

\* the response of the upsert of row sync.i
SyncUpsert ==
    /\ sync.pc = "upsert"
    /\ LET k == SignalKey(sync.list[sync.i])
       IN  \/ /\ store' = Upsert(store, k, AutoWorkEntry)
              /\ hist' = [hist EXCEPT !.ev = "wrote", !.k = k, !.before = store[k], !.n = hist.n + 1]
              /\ SyncContinue(sync.list, sync.i + 1)
              /\ UNCHANGED syncingJobs
           \/ /\ SyncFailed(ErrorText)
              /\ hist' = [hist EXCEPT !.ev = "upsertFailed", !.k = k]
              /\ UNCHANGED <<store, loads, busy>>
    /\ UNCHANGED <<jobDays, weekStart, drivers, entries, open, activeDriver, savingDay, day, ops, paidVars, routeVars, otherVars>>

----------------------------------------------------------------------------
(* setPaid: the paid button of a row of the table.                           *)

\* the catch and finally blocks of setPaid
PaidFailed(c, msg) ==
    /\ error' = Some(msg)
    /\ savingPaid' = None
    /\ paidCalls' = paidCalls \ {c}

\* the paid button of driver d (disabled while savingPaid is d)
setPaid(d) ==
    /\ ~busy
    /\ d \in drivers
    /\ savingPaid # Some(d)
    /\ ops < MaxOps
    /\ savingPaid' = Some(d)
    /\ error' = None
    /\ paidCalls' = paidCalls \cup {[pc |-> "auth", d |-> d, ws |-> weekStart, paid |-> ~(IsSome(payroll[d]) /\ payroll[d][1].paid)]}
    /\ ops' = ops + 1
    /\ UNCHANGED <<store, jobDays, weekStart, drivers, entries, busy, open, activeDriver, savingDay, syncingJobs, loads, sync, day, hist, payrollDb, payroll, routeVars, otherVars>>

PaidAuth(c) ==
    /\ c \in paidCalls
    /\ c.pc = "auth"
    /\ \E o \in AuthOutcomes :
          IF o = "user"
          THEN paidCalls' = (paidCalls \ {c}) \cup {[c EXCEPT !.pc = "write"]} /\ UNCHANGED <<error, savingPaid>>
          ELSE PaidFailed(c, AuthMessage(o))
    /\ UNCHANGED <<store, jobDays, weekStart, drivers, entries, busy, open, activeDriver, savingDay, syncingJobs, loads, sync, day, ops, hist, payrollDb, payroll, routeVars, otherVars>>

\* the response of the upsert, then load()
PaidWrite(c) ==
    /\ c \in paidCalls
    /\ c.pc = "write"
    /\ \/ /\ payrollDb' = [payrollDb EXCEPT ![<<c.d, c.ws>>] = Some(PayrollRow(c.ws, c.paid))]
          /\ paidCalls' = paidCalls \ {c}
          /\ loads' = loads \cup {NewLoad("paid", c.ws)}
          /\ busy' = TRUE
          /\ error' = None
          /\ UNCHANGED savingPaid
       \/ /\ PaidFailed(c, ErrorText)
          /\ UNCHANGED <<payrollDb, loads, busy>>
    /\ UNCHANGED <<store, jobDays, weekStart, drivers, entries, open, activeDriver, savingDay, syncingJobs, sync, day, ops, hist, payroll, routeVars, otherVars>>

----------------------------------------------------------------------------
(* The details modal: upsertDayEntry, clearDayEntry, updateWorkHours.         *)

\* Number(v) of an input string: a number, or NaN for a string that is none
NaN == None

\* clampNum(v, fallback), v given as Number(v)
clampNum(v, fallback) == IF v = NaN THEN fallback ELSE v[1]

Max(a, b) == IF a >= b THEN a ELSE b

\* upsertDayEntry counting a shift for a work day only
upsertPayloadWorkShiftOnly(pt, status, existing, opts, leaveHours, reason, free) ==
    LET leaveHoursNum == Max(0, clampNum(leaveHours, 8))
        shifts == IF pt = "shift" THEN (IF status = "work" THEN 1 ELSE 0) ELSE 1
        base == IF IsSome(existing) /\ existing[1].status = "work" /\ IsSome(existing[1].hours) THEN existing[1].hours[1] ELSE 0
        hours == IF pt # "hourly" THEN None
                 ELSE IF status = "work" THEN Some(IF IsSome(opts.hoursOverride) THEN opts.hoursOverride[1] ELSE base)
                 ELSE IF status = "leave" THEN Some(IF IsSome(opts.hoursOverride) THEN opts.hoursOverride[1] ELSE leaveHoursNum)
                 ELSE Some(0)
        old == IF IsSome(existing) THEN existing[1].notes ELSE None
        dflt == CASE status = "work" -> AutoNote [] status = "leave" -> <<"Manual:", "Annual leave">> [] status = "off" -> <<"Manual:", "Off (unpaid)">> [] status = "sick" -> <<"Manual:", "Sick (unpaid)">>
        notes == IF opts.manual
                 THEN Some(buildManualNote(IF IsSome(opts.manualKindLabel) THEN opts.manualKindLabel[1] ELSE "Work", reason, free))
                 ELSE IF IsSome(old) THEN old ELSE Some(dflt)
    IN  Entry(status, shifts, hours, notes)

\* the payload upsertDayEntry builds for a driver of pay type pt
\* opts: [manual, manualKindLabel (option), hoursOverride (option)]
upsertPayload(pt, status, existing, opts, leaveHours, reason, free) ==
    LET leaveHoursNum == Max(0, clampNum(leaveHours, 8))
        shifts == IF pt = "shift" THEN (IF status = "work" \/ status = "leave" THEN 1 ELSE 0) ELSE 1
        base == IF IsSome(existing) /\ existing[1].status = "work" /\ IsSome(existing[1].hours) THEN existing[1].hours[1] ELSE 0
        hours == IF pt # "hourly" THEN None
                 ELSE IF status = "work" THEN Some(IF IsSome(opts.hoursOverride) THEN opts.hoursOverride[1] ELSE base)
                 ELSE IF status = "leave" THEN Some(IF IsSome(opts.hoursOverride) THEN opts.hoursOverride[1] ELSE leaveHoursNum)
                 ELSE Some(0)
        old == IF IsSome(existing) THEN existing[1].notes ELSE None
        dflt == CASE status = "work" -> AutoNote [] status = "leave" -> <<"Manual:", "Annual leave">> [] status = "off" -> <<"Manual:", "Off (unpaid)">> [] status = "sick" -> <<"Manual:", "Sick (unpaid)">>
        notes == IF opts.manual
                 THEN Some(buildManualNote(IF IsSome(opts.manualKindLabel) THEN opts.manualKindLabel[1] ELSE "Work", reason, free))
                 ELSE IF IsSome(old) THEN old ELSE Some(dflt)
    IN  Entry(status, shifts, hours, notes)

\* the four buttons of a day card call upsertDayEntry with these options
ManualOpts(status) == [manual |-> TRUE, manualKindLabel |-> Some(KindLabel(status)), hoursOverride |-> None]

\* the days of the shown week the model's inputs fall on
ShownDays == weekDates(weekStart) \cap Dates

openDriverDetail(d) ==
    /\ ~busy
    /\ ~open
    /\ d \in drivers
    /\ ops < MaxOps
    /\ open' = TRUE
    /\ activeDriver' = Some(d)
    /\ ops' = ops + 1
    /\ UNCHANGED <<store, jobDays, weekStart, drivers, entries, busy, error, savingDay, syncingJobs, loads, sync, day, hist, paidVars, routeVars, otherVars>>

closeModal ==
    /\ open
    /\ open' = FALSE
    /\ activeDriver' = None
    /\ UNCHANGED <<store, jobDays, weekStart, drivers, entries, busy, error, savingDay, syncingJobs, loads, sync, day, ops, hist, paidVars, routeVars, otherVars>>

\* a handler of the modal starts: setSavingDay(true), setError(null)
DayStart(pc, kind, k, payload) ==
    /\ savingDay' = TRUE
    /\ error' = None
    /\ day' = [pc |-> pc, kind |-> kind, k |-> k, payload |-> payload, ws |-> weekStart]
    /\ ops' = ops + 1
    /\ UNCHANGED <<store, jobDays, weekStart, drivers, entries, busy, open, activeDriver, syncingJobs, loads, sync, hist, paidVars, routeVars, otherVars>>

\* one of the buttons Work / Leave / Off / Sick of a day card
upsertDayEntry(date, status) ==
    /\ open /\ IsSome(activeDriver) /\ ~savingDay
    /\ ops < MaxOps
    /\ date \in ShownDays
    /\ \E reason \in ManualReasons, free \in ManualFreeTexts :
          LET d == activeDriver[1]
              existing == getEntry(entries, <<d, date>>)
          IN  DayStart("auth", "upsert", <<d, date>>, upsertPayload(PayTypeOf(d), status, existing, ManualOpts(status), Some(DefaultLeaveHours), reason, free))

\* the Clear button of a day card (disabled without an entry)
clearDayEntry(date) ==
    /\ open /\ IsSome(activeDriver) /\ ~savingDay
    /\ ops < MaxOps
    /\ date \in ShownDays
    /\ IsSome(getEntry(entries, <<activeDriver[1], date>>))
    /\ DayStart("write", "clear", <<activeDriver[1], date>>, AutoWorkEntry)

\* values typed into the hours input, parsed by Number()
HoursInputs == {NaN, Some(-1), Some(8)}

\* the hours input of a day card (shown for hourly drivers, disabled unless work)
updateWorkHours(date, hoursStr) ==
    /\ open /\ IsSome(activeDriver) /\ ~savingDay
    /\ ops < MaxOps
    /\ date \in ShownDays
    /\ PayTypeOf(activeDriver[1]) = "hourly"
    /\ LET entry == getEntry(entries, <<activeDriver[1], date>>)
       IN  /\ IsSome(entry)
           /\ entry[1].status = "work"
           /\ DayStart("auth", "hours", <<activeDriver[1], date>>, Entry("work", 1, Some(Max(0, clampNum(hoursStr, 0))), entry[1].notes))

\* the catch and finally blocks of the three handlers
DayFailed(msg) ==
    /\ error' = Some(msg)
    /\ savingDay' = FALSE
    /\ day' = DayIdle

DayAuth ==
    /\ day.pc = "auth"
    /\ \E o \in AuthOutcomes :
          IF o = "user"
          THEN day' = [day EXCEPT !.pc = "write"] /\ UNCHANGED <<error, savingDay>>
          ELSE DayFailed(AuthMessage(o))
    /\ UNCHANGED <<store, jobDays, weekStart, drivers, entries, busy, open, activeDriver, syncingJobs, loads, sync, ops, hist, paidVars, routeVars, otherVars>>

\* DayWrite with the paid checkpoint of the driver's week reset by the write
DayWriteResettingPaid ==
    /\ day.pc = "write"
    /\ \/ /\ store' = IF day.kind = "clear" THEN Delete(store, day.k) ELSE Upsert(store, day.k, day.payload)
          /\ day' = [day EXCEPT !.pc = "load"]
          /\ loads' = loads \cup {NewLoad("day", day.ws)}
          /\ busy' = TRUE
          /\ error' = None
          /\ payrollDb' = [payrollDb EXCEPT ![<<day.k[1], day.ws>>] = None]
          /\ hist' = [hist EXCEPT !.cleared = IF day.kind = "clear" THEN @ \cup {day.k} ELSE @ \ {day.k}]
          /\ UNCHANGED savingDay
       \/ /\ DayFailed(ErrorText)
          /\ UNCHANGED <<store, loads, busy, payrollDb, hist>>
    /\ UNCHANGED <<jobDays, weekStart, drivers, entries, open, activeDriver, syncingJobs, sync, ops, payroll, savingPaid, paidCalls, routeVars, otherVars>>

\* the response of the upsert or delete, then load()
DayWrite ==
    /\ day.pc = "write"
    /\ \/ /\ store' = IF day.kind = "clear" THEN Delete(store, day.k) ELSE Upsert(store, day.k, day.payload)
          /\ day' = [day EXCEPT !.pc = "load"]
          /\ loads' = loads \cup {NewLoad("day", day.ws)}
          /\ busy' = TRUE
          /\ error' = None
          /\ hist' = [hist EXCEPT !.cleared = IF day.kind = "clear" THEN @ \cup {day.k} ELSE @ \ {day.k}]
          /\ UNCHANGED savingDay
       \/ /\ DayFailed(ErrorText)
          /\ UNCHANGED <<store, loads, busy, hist>>
    /\ UNCHANGED <<jobDays, weekStart, drivers, entries, open, activeDriver, syncingJobs, sync, ops, paidVars, routeVars, otherVars>>

----------------------------------------------------------------------------
(* RouteModal: postcodes.  A postcode is the sequence of its characters.     *)

Space == " "

toUpperChar(c) == CASE c = "a" -> "A" [] c = "b" -> "B" [] c = "c" -> "C" [] c = "d" -> "D" [] OTHER -> c

\* String.prototype.toUpperCase
toUpperCase(s) == [i \in 1..Len(s) |-> toUpperChar(s[i])]

\* replace(/\s+/g, "")
RECURSIVE removeSpaces(_)
removeSpaces(s) == IF s = <<>> THEN <<>> ELSE IF Head(s) = Space THEN removeSpaces(Tail(s)) ELSE <<Head(s)>> \o removeSpaces(Tail(s))

normKey(pc) == toUpperCase(removeSpaces(pc))

\* formatUKPostcode with the spaces of its input kept in the key
formatUKPostcodeKeepingSpaces(pc) ==
    LET key == toUpperCase(pc)
    IN  IF key = <<>> THEN <<>>
        ELSE IF Len(key) <= 3 THEN key
        ELSE SubSeq(key, 1, Len(key) - 3) \o <<Space>> \o SubSeq(key, Len(key) - 2, Len(key))

\* the pretty form: the key, with a space before its last 3 characters
formatUKPostcode(pc) ==
    LET key == normKey(pc)
    IN  IF key = <<>> THEN <<>>
        ELSE IF Len(key) <= 3 THEN key
        ELSE SubSeq(key, 1, Len(key) - 3) \o <<Space>> \o SubSeq(key, Len(key) - 2, Len(key))

\* texts typed into a postcode input
TypedPostcodes == {<<>>, <<Space>>, <<"a", "b", "1", "2">>, <<"a", "b", Space, "1", "2">>, <<"c", "d", "9">>}

\* minutes the wall clock of the browser is ahead of UTC
TzOffset == 60

MinutesPerHour == 60

HoursPerDay == 24

\* days of a year (month and day are taken together as the day of the year)
DaysPerYear == 365

DigitChars == <<"0", "1", "2", "3", "4", "5", "6", "7", "8", "9">>

DigitValue(c) == (CHOOSE i \in 1..10 : DigitChars[i] = c) - 1

\* the number a text of digits stands for
RECURSIVE NumberOf(_)
NumberOf(s) == IF s = <<>> THEN 0 ELSE NumberOf(SubSeq(s, 1, Len(s) - 1)) * 10 + DigitValue(s[Len(s)])

\* String(n) of an integer n >= 0: its digits, without leading zeros
RECURSIVE StringOf(_)
StringOf(n) == IF n < 10 THEN <<DigitChars[n + 1]>> ELSE StringOf(n \div 10) \o <<DigitChars[(n % 10) + 1]>>

RECURSIVE padStart(_, _)
padStart(s, n) == IF Len(s) >= n THEN s ELSE padStart(<<"0">> \o s, n)

\* pad = (n) => String(n).padStart(2, "0")
pad(n) == padStart(StringOf(n), 2)

\* the value of a datetime-local input, "YYYY-MM-DDTHH:mm", by its fields
WallClock(yyyy, ddd, hh, mi) == [yyyy |-> yyyy, ddd |-> ddd, hh |-> hh, mi |-> mi]

\* new Date(local): the minutes from year 0 on the local wall clock
DateOfLocal(local) == ((NumberOf(local.yyyy) * DaysPerYear + NumberOf(local.ddd)) * HoursPerDay + NumberOf(local.hh)) * MinutesPerHour + NumberOf(local.mi)

\* new Date(local).toISOString(): the instant, in UTC minutes from year 0
localDatetimeToIso(local) == DateOfLocal(local) - TzOffset

\* isoToLocalDatetime: the local fields of the instant, yyyy not padded
isoToLocalDatetime(iso) ==
    LET t == iso + TzOffset
        days == t \div (HoursPerDay * MinutesPerHour)
    IN  WallClock(StringOf(days \div DaysPerYear), padStart(StringOf(days % DaysPerYear), 3), pad((t \div MinutesPerHour) % HoursPerDay), pad(t % MinutesPerHour))

\* the wall-clock time typed in the examples: 09:30 on a day of 2025
TypedTime == WallClock(<<"2", "0", "2", "5">>, <<"3", "5", "4">>, <<"0", "9">>, <<"3", "0">>)

\* values of a datetime-local input: "" or a wall-clock time
TypedTimes == {None, Some(TypedTime)}

Draft(pc, name, t) == [postcode |-> pc, name |-> name, planned_time |-> t]

StopFinal(n, pc, name, t, lat, lng) == [stop_order |-> n, postcode |-> pc, name |-> name, planned_time |-> t, lat |-> lat, lng |-> lng]

allDraft == <<collection>> \o stops \o <<delivery>>

\* filter(Boolean) on a sequence of strings
RECURSIVE filterNonEmpty(_)
filterNonEmpty(q) == IF q = <<>> THEN <<>> ELSE IF Head(q) = <<>> THEN filterNonEmpty(Tail(q)) ELSE <<Head(q)>> \o filterNonEmpty(Tail(q))

Range(q) == {q[i] : i \in 1..Len(q)}

----------------------------------------------------------------------------
(* The API route /api/geocode and the lookup service behind it.              *)

\* what the lookup service answers for one query: coordinates, a result
\* without coordinates, null (not found), or no item at all
LookupOutcomes == {"found", "noCoord", "notFound", "omitted"}

\* the coordinates of a postcode
LatOf(key) == 50 + Len(key)

LngOf(key) == 0 - Len(key)

\* an entry of the results object: null, or {lat, lng}
NullResult == [isNull |-> TRUE, lat |-> None, lng |-> None]

CoordResult(lat, lng) == [isNull |-> FALSE, lat |-> lat, lng |-> lng]

\* responses of the lookup service to a batch: "throw" (unreachable),
\* "fail" (non-success status), or the outcome of every query
LookupResponses(postcodes) == {[kind |-> "throw", f |-> <<>>], [kind |-> "fail", f |-> <<>>]} \cup {[kind |-> "ok", f |-> f] : f \in [Range(postcodes) -> LookupOutcomes]}

\* POST of /api/geocode: [status, results]
GeocodePOST(postcodesRaw, up) ==
    LET postcodes == filterNonEmpty([i \in 1..Len(postcodesRaw) |-> normKey(postcodesRaw[i])])
        answered == {q \in Range(postcodes) : up.f[q] # "omitted"}
    IN  IF Len(postcodesRaw) = 0 \/ Len(postcodes) = 0 THEN [status |-> 400, results |-> <<>>]
        ELSE IF up.kind = "throw" THEN [status |-> 500, results |-> <<>>]
        ELSE IF up.kind = "fail" THEN [status |-> 502, results |-> <<>>]
        ELSE [status |-> 200,
              results |-> [q \in answered |-> CASE up.f[q] = "notFound" -> NullResult
                                                [] up.f[q] = "noCoord" -> CoordResult(None, None)
                                                [] OTHER -> CoordResult(Some(LatOf(q)), Some(LngOf(q)))]]

----------------------------------------------------------------------------
(* The API route /api/route-miles and the routing service behind it.         *)

\* thousandths of a metre in a mile (1609.344 m)
MilliMetresPerMile == 1609344

\* distances the routing service reports, in metres
RouteMetres == {0, 805, 16093}

\* responses of the routing service: "throw", "fail" (non-success status),
\* a route with a distance, or an answer without a numeric distance
RouterResponses == {[kind |-> "throw", distance |-> None], [kind |-> "fail", distance |-> None], [kind |-> "ok", distance |-> None]} \cup {[kind |-> "ok", distance |-> Some(m)] : m \in RouteMetres}

\* Math.round(miles * 10) / 10, in tenths of a mile
RoundedTenths(metres) == (metres * 20000 + MilliMetresPerMile) \div (2 * MilliMetresPerMile)

\* the coordinates that are finite numbers
RECURSIVE finiteCoords(_)
finiteCoords(q) == IF q = <<>> THEN <<>> ELSE IF IsSome(Head(q).lat) /\ IsSome(Head(q).lng) THEN <<Head(q)>> \o finiteCoords(Tail(q)) ELSE finiteCoords(Tail(q))

\* RouteMilesPOST without the test that the distance is a number
RouteMilesPOSTAnyDistance(coordsRaw, up) ==
    LET coords == finiteCoords(coordsRaw)
    IN  IF Len(coordsRaw) < 2 \/ Len(coords) < 2 THEN [status |-> 400, miles |-> None, path |-> <<>>]
        ELSE IF up.kind = "throw" THEN [status |-> 500, miles |-> None, path |-> coords]
        ELSE IF up.kind = "fail" THEN [status |-> 502, miles |-> None, path |-> coords]
        ELSE [status |-> 200, miles |-> IF IsSome(up.distance) THEN Some(RoundedTenths(up.distance[1])) ELSE None, path |-> coords]

\* POST of /api/route-miles: [status, miles, path]
RouteMilesPOST(coordsRaw, up) ==
    LET coords == finiteCoords(coordsRaw)
    IN  IF Len(coordsRaw) < 2 \/ Len(coords) < 2 THEN [status |-> 400, miles |-> None, path |-> <<>>]
        ELSE IF up.kind = "throw" THEN [status |-> 500, miles |-> None, path |-> coords]
        ELSE IF up.kind = "fail" \/ ~IsSome(up.distance) THEN [status |-> 502, miles |-> None, path |-> coords]
        ELSE [status |-> 200, miles |-> Some(RoundedTenths(up.distance[1])), path |-> coords]

----------------------------------------------------------------------------
(* RouteModal and the part of AddJobModal that hosts it.                     *)

\* stops a job holds when AddJobModal is opened: none (a new job), or the
\* stored stops of the job that is edited
RouteSeeds == {<<>>, <<StopFinal(1, <<"C", "D", "9">>, Some("Collection"), None, Some(53), Some(-3)), StopFinal(2, <<"E", "F", "7">>, None, None, Some(53), Some(-3)), StopFinal(3, formatUKPostcode(<<"a", "b", "1", "2">>), Some("Delivery"), Some(localDatetimeToIso(TypedTime)), Some(54), Some(-4))>>, <<StopFinal(1, formatUKPostcode(<<"a", "b", "1", "2">>), Some("Collection"), Some(localDatetimeToIso(TypedTime)), Some(54), Some(-4)), StopFinal(2, <<"C", "D", "9">>, Some("Delivery"), None, Some(53), Some(-3))>>}

ConfIdle == [pc |-> "idle", drafts |-> <<>>, postcodes |-> <<>>, finalStops |-> <<>>]

\* what is recorded of the last run of confirm(): its number, its last event,
\* the drafts and keys it submitted, the geocoding response it got and the
\* answer of the routing service
RHistNone == [n |-> 0, ev |-> "none", drafts |-> <<>>, postcodes |-> <<>>, status |-> 0, results |-> <<>>, coords |-> <<>>, router |-> None]

RouteInit ==
    /\ collection = Draft(<<>>, "Collection", None)
    /\ stops = <<>>
    /\ delivery = Draft(<<>>, "Delivery", None)
    /\ rBusy = FALSE
    /\ rError = None
    /\ conf = ConfIdle
    /\ routeOpen = FALSE
    /\ routeStops \in RouteSeeds
    /\ routeMiles = None
    /\ rOps = 0
    /\ delivered = 0
    /\ geoCalls = 0
    /\ milesCalls = 0
    /\ rhist = RHistNone

\* [...initialStops].sort((a, b) => a.stop_order - b.stop_order)
RECURSIVE insertByOrder(_, _)
insertByOrder(x, q) == IF q = <<>> THEN <<x>> ELSE IF x.stop_order < Head(q).stop_order THEN <<x>> \o q ELSE <<Head(q)>> \o insertByOrder(x, Tail(q))

RECURSIVE sortByOrder(_)
sortByOrder(q) == IF q = <<>> THEN <<>> ELSE insertByOrder(q[Len(q)], sortByOrder(SubSeq(q, 1, Len(q) - 1)))

\* the draft the prefill effect makes of a stored stop
PrefillDraft(m, dflt) == Draft(m.postcode, IF IsSome(m.name) THEN m.name[1] ELSE dflt, IF IsSome(m.planned_time) THEN Some(isoToLocalDatetime(m.planned_time[1])) ELSE None)

\* the effect on [open, initialStops], run when the modal opens
Prefill(initialStops) ==
    LET sorted == sortByOrder(initialStops)
        n == Len(sorted)
    IN  IF n >= 2
        THEN /\ collection' = PrefillDraft(sorted[1], "Collection")
             /\ delivery' = PrefillDraft(sorted[n], "Delivery")
             /\ stops' = [i \in 1..(n - 2) |-> PrefillDraft(sorted[i + 1], "Stop")]
        ELSE /\ collection' = Draft(<<>>, "Collection", None)
             /\ delivery' = Draft(<<>>, "Delivery", None)
             /\ stops' = <<>>

\* the button of AddJobModal that opens the route modal
OpenRoute ==
    /\ ~routeOpen
    /\ rOps < MaxRouteOps
    /\ routeOpen' = TRUE
    /\ rError' = None
    /\ Prefill(routeStops)
    /\ rOps' = rOps + 1
    /\ UNCHANGED <<rBusy, conf, routeStops, routeMiles, delivered, geoCalls, milesCalls, rhist, payVars, otherVars>>

\* the close button and the backdrop of the modal
CloseRoute ==
    /\ routeOpen
    /\ rOps < MaxRouteOps
    /\ routeOpen' = FALSE
    /\ rOps' = rOps + 1
    /\ UNCHANGED <<collection, stops, delivery, rBusy, rError, conf, routeStops, routeMiles, delivered, geoCalls, milesCalls, rhist, payVars, otherVars>>

\* an edit of the drafts
EditDrafts(c, st, d) ==
    /\ routeOpen
    /\ rOps < MaxRouteOps
    /\ collection' = c
    /\ stops' = st
    /\ delivery' = d
    /\ rOps' = rOps + 1
    /\ UNCHANGED <<rBusy, rError, conf, routeOpen, routeStops, routeMiles, delivered, geoCalls, milesCalls, rhist, payVars, otherVars>>

setCollectionPostcode(v) == EditDrafts([collection EXCEPT !.postcode = toUpperCase(v)], stops, delivery)

blurCollectionPostcode == EditDrafts([collection EXCEPT !.postcode = formatUKPostcode(collection.postcode)], stops, delivery)

setCollectionTime(t) == EditDrafts([collection EXCEPT !.planned_time = t], stops, delivery)

setDeliveryPostcode(v) == EditDrafts(collection, stops, [delivery EXCEPT !.postcode = toUpperCase(v)])

blurDeliveryPostcode == EditDrafts(collection, stops, [delivery EXCEPT !.postcode = formatUKPostcode(delivery.postcode)])

setDeliveryTime(t) == EditDrafts(collection, stops, [delivery EXCEPT !.planned_time = t])

addStop == EditDrafts(collection, Append(stops, Draft(<<>>, "Stop", None)), delivery)

removeStop(i) == i \in 1..Len(stops) /\ EditDrafts(collection, [j \in 1..(Len(stops) - 1) |-> IF j < i THEN stops[j] ELSE stops[j + 1]], delivery)

updateStopPostcode(i, v) == i \in 1..Len(stops) /\ EditDrafts(collection, [stops EXCEPT ![i].postcode = toUpperCase(v)], delivery)

blurStopPostcode(i) == i \in 1..Len(stops) /\ EditDrafts(collection, [stops EXCEPT ![i].postcode = formatUKPostcode(stops[i].postcode)], delivery)

updateStopTime(i, t) == i \in 1..Len(stops) /\ EditDrafts(collection, [stops EXCEPT ![i].planned_time = t], delivery)

----------------------------------------------------------------------------
(* RouteModal.confirm.                                                       *)

\* allDraft.map((x) => normKey(x.postcode)).filter(Boolean)
ConfirmPostcodes(drafts) == filterNonEmpty([i \in 1..Len(drafts) |-> normKey(drafts[i].postcode)])

\* TooFewPostcodes that accepts a single postcode
TooFewPostcodesBelowOne(postcodes) == Len(postcodes) < 1

\* the validation before the first request
TooFewPostcodes(postcodes) == Len(postcodes) < 2

\* map[pc] == null
IsNullish(results, pc) == pc \notin DOMAIN results \/ results[pc].isNull

\* postcodes.filter((pc) => map[pc] == null)
MissingPostcodes(postcodes, results) == SelectSeq(postcodes, LAMBDA pc : IsNullish(results, pc))

\* BuildFinalStops that numbers the stops from 0
BuildFinalStopsFromZero(drafts, results) ==
    [idx \in 1..Len(drafts) |->
        LET pcPretty == formatUKPostcode(drafts[idx].postcode)
            key == normKey(pcPretty)
            hit == IF IsNullish(results, key) THEN NullResult ELSE results[key]
        IN  StopFinal(idx - 1, pcPretty, Some(drafts[idx].name),
                      IF IsSome(drafts[idx].planned_time) THEN Some(localDatetimeToIso(drafts[idx].planned_time[1])) ELSE None,
                      hit.lat, hit.lng)]

\* allDraft.map(...) of step 2
BuildFinalStops(drafts, results) ==
    [idx \in 1..Len(drafts) |->
        LET pcPretty == formatUKPostcode(drafts[idx].postcode)
            key == normKey(pcPretty)
            hit == IF IsNullish(results, key) THEN NullResult ELSE results[key]
        IN  StopFinal(idx, pcPretty, Some(drafts[idx].name),
                      IF IsSome(drafts[idx].planned_time) THEN Some(localDatetimeToIso(drafts[idx].planned_time[1])) ELSE None,
                      hit.lat, hit.lng)]

\* BadStops without the safety check: no stop is reported
BadStopsUnchecked(finalStops) == <<>>

\* finalStops.find((s) => s.lat == null || s.lng == null)
BadStops(finalStops) == SelectSeq(finalStops, LAMBDA x : ~IsSome(x.lat) \/ ~IsSome(x.lng))

\* GeocodeError that looks at the status of the response only
GeocodeErrorStatusOnly(drafts, postcodes, resp) == IF resp.status # 200 THEN Some("Geocoding failed") ELSE None

\* the error confirm() throws on a geocoding response, None when it goes on
GeocodeError(drafts, postcodes, resp) ==
    IF resp.status # 200 THEN Some("Geocoding failed")
    ELSE IF MissingPostcodes(postcodes, resp.results) # <<>> THEN Some("Postcode(s) not found")
    ELSE IF BadStops(BuildFinalStops(drafts, resp.results)) # <<>> THEN Some("Missing coordinates")
    ELSE None

\* ConfirmFailed that closes the modal
ConfirmFailedClosing(msg) ==
    /\ rError' = Some(msg)
    /\ rBusy' = FALSE
    /\ conf' = ConfIdle
    /\ routeOpen' = FALSE
    /\ UNCHANGED <<routeStops, routeMiles, delivered>>

\* the catch and finally blocks of confirm()
ConfirmFailed(msg) ==
    /\ rError' = Some(msg)
    /\ rBusy' = FALSE
    /\ conf' = ConfIdle
    /\ UNCHANGED <<routeOpen, routeStops, routeMiles, delivered>>

\* confirm() behind a button that stays enabled while busy
confirmWhileBusy ==
    /\ routeOpen
    /\ rOps < MaxRouteOps
    /\ rOps' = rOps + 1
    /\ LET postcodes == ConfirmPostcodes(allDraft)
       IN  IF TooFewPostcodes(postcodes)
           THEN /\ ConfirmFailed("Please enter at least collection and delivery postcodes.")
                /\ rhist' = [RHistNone EXCEPT !.n = rhist.n + 1, !.ev = "invalid", !.drafts = allDraft, !.postcodes = postcodes]
                /\ UNCHANGED <<geoCalls, milesCalls>>
           ELSE /\ rBusy' = TRUE
                /\ rError' = None
                /\ conf' = [pc |-> "geo", drafts |-> allDraft, postcodes |-> postcodes, finalStops |-> <<>>]
                /\ geoCalls' = geoCalls + 1
                /\ rhist' = [RHistNone EXCEPT !.n = rhist.n + 1, !.ev = "geoSent", !.drafts = allDraft, !.postcodes = postcodes]
                /\ UNCHANGED <<milesCalls, routeOpen, routeStops, routeMiles, delivered>>
    /\ UNCHANGED <<collection, stops, delivery, payVars, otherVars>>

\* the Confirm Route button (disabled while busy), up to the first await
confirm ==
    /\ routeOpen
    /\ ~rBusy
    /\ rOps < MaxRouteOps
    /\ rOps' = rOps + 1
    /\ LET postcodes == ConfirmPostcodes(allDraft)
       IN  IF TooFewPostcodes(postcodes)
           THEN /\ ConfirmFailed("Please enter at least collection and delivery postcodes.")
                /\ rhist' = [RHistNone EXCEPT !.n = rhist.n + 1, !.ev = "invalid", !.drafts = allDraft, !.postcodes = postcodes]
                /\ UNCHANGED <<geoCalls, milesCalls>>
           ELSE /\ rBusy' = TRUE
                /\ rError' = None
                /\ conf' = [pc |-> "geo", drafts |-> allDraft, postcodes |-> postcodes, finalStops |-> <<>>]
                /\ geoCalls' = geoCalls + 1
                /\ rhist' = [RHistNone EXCEPT !.n = rhist.n + 1, !.ev = "geoSent", !.drafts = allDraft, !.postcodes = postcodes]
                /\ UNCHANGED <<milesCalls, routeOpen, routeStops, routeMiles, delivered>>
    /\ UNCHANGED <<collection, stops, delivery, payVars, otherVars>>

\* the fetch of /api/geocode rejects (the network fails)
GeocodeFetchFailed ==
    /\ conf.pc = "geo"
    /\ ConfirmFailed("Failed to fetch")
    /\ rhist' = [rhist EXCEPT !.ev = "geoFailed"]
    /\ UNCHANGED <<collection, stops, delivery, rOps, geoCalls, milesCalls, payVars, otherVars>>

\* the response of /api/geocode
GeocodeResponse ==
    /\ conf.pc = "geo"
    /\ \E up \in LookupResponses(conf.postcodes) :
          LET resp == GeocodePOST(conf.postcodes, up)
              err == GeocodeError(conf.drafts, conf.postcodes, resp)
              finalStops == BuildFinalStops(conf.drafts, resp.results)
              coords == [i \in 1..Len(finalStops) |-> [lat |-> finalStops[i].lat, lng |-> finalStops[i].lng]]
          IN  IF IsSome(err)
              THEN /\ ConfirmFailed(err[1])
                   /\ rhist' = [rhist EXCEPT !.ev = "geoFailed", !.status = resp.status, !.results = resp.results]
                   /\ UNCHANGED milesCalls
              ELSE /\ conf' = [conf EXCEPT !.pc = "miles", !.finalStops = finalStops]
                   /\ milesCalls' = milesCalls + 1
                   /\ rhist' = [rhist EXCEPT !.ev = "milesSent", !.status = resp.status, !.results = resp.results, !.coords = coords]
                   /\ UNCHANGED <<rBusy, rError, routeOpen, routeStops, routeMiles, delivered>>
    /\ UNCHANGED <<collection, stops, delivery, rOps, geoCalls, payVars, otherVars>>

\* the fetch of /api/route-miles rejects (the network fails)
MilesFetchFailed ==
    /\ conf.pc = "miles"
    /\ ConfirmFailed("Failed to fetch")
    /\ rhist' = [rhist EXCEPT !.ev = "milesFailed"]
    /\ UNCHANGED <<collection, stops, delivery, rOps, geoCalls, milesCalls, payVars, otherVars>>

\* the response of /api/route-miles
MilesResponse ==
    /\ conf.pc = "miles"
    /\ \E up \in RouterResponses :
          LET resp == RouteMilesPOST(rhist.coords, up)
          IN  IF resp.status # 200
              THEN /\ ConfirmFailed("Road distance failed")
                   /\ rhist' = [rhist EXCEPT !.ev = "milesFailed", !.router = Some(up)]
              ELSE /\ routeStops' = conf.finalStops
                   /\ routeMiles' = resp.miles
                   /\ delivered' = delivered + 1
                   /\ routeOpen' = FALSE
                   /\ rBusy' = FALSE
                   /\ conf' = ConfIdle
                   /\ rhist' = [rhist EXCEPT !.ev = "confirmed", !.router = Some(up)]
                   /\ UNCHANGED rError
    /\ UNCHANGED <<collection, stops, delivery, rOps, geoCalls, milesCalls, payVars, otherVars>>

----------------------------------------------------------------------------
(* AddJobModal.save and the rows of the job it writes.                       *)

\* the fields of the form that save() validates
JobRefs == {<<>>, <<Space>>, <<"j", "1">>}

CustomerIds == {"", "c1"}

JobDates == {"", "2025-12-21"}

\* the amount field: empty, a number with a decimal comma, or no number
Amounts == {"", "12,5", "abc"}

\* parseAmountToNumber: Number(v.replace(",", ".")), in tenths
parseAmountToNumber(v) == IF v = "12,5" THEN Some(125) ELSE NaN

Forms == [open : {TRUE}, isEdit : BOOLEAN, jobRef : JobRefs, customerId : CustomerIds, jobDate : JobDates, amount : Amounts]

\* the job_stops rows stored for a job: none, or the stops of an earlier route
StoredStops == RouteSeeds

NoJobDb == [job |-> None, alloc |-> FALSE, stops |-> <<>>]

\* what is recorded of the last run of save(): its last event and the
\* job_stops rows and route it started with
SaveIdle == [pc |-> "idle", ev |-> "none", before |-> <<>>, routeStops |-> <<>>, routeMiles |-> None, form |-> None]

SaveInit ==
    /\ form \in Forms
    /\ jobDb \in {[job |-> IF form.isEdit THEN Some([ref |-> <<"J", "0">>, miles |-> None]) ELSE None, alloc |-> form.isEdit, stops |-> st] : st \in IF form.isEdit THEN StoredStops ELSE {<<>>}}
    /\ save = SaveIdle
    /\ sBusy = FALSE
    /\ sError = None

\* the catch and finally blocks of save()
SaveFailed(msg) ==
    /\ sError' = Some(msg)
    /\ sBusy' = FALSE
    /\ save' = [save EXCEPT !.pc = "idle", !.ev = "failed"]
    /\ UNCHANGED form

\* onSaved(); onClose(); and the finally block
SaveDone ==
    /\ form' = [form EXCEPT !.open = FALSE]
    /\ sBusy' = FALSE
    /\ save' = [save EXCEPT !.pc = "idle", !.ev = "saved"]
    /\ UNCHANGED sError

\* the message of the first validation that fails, None when all pass
SaveValidation(f) ==
    IF trim(f.jobRef) = <<>> THEN Some("Job reference is required.")
    ELSE IF f.customerId = "" THEN Some("Customer is required.")
    ELSE IF f.jobDate = "" THEN Some("Job date is required.")
    ELSE IF f.amount = "" THEN Some("Amount is required.")
    ELSE IF parseAmountToNumber(f.amount) = NaN THEN Some("Amount must be a valid number (e.g. 111.32).")
    ELSE None

\* the Save button (disabled while busy)
SaveClick ==
    /\ form.open
    /\ ~sBusy
    /\ sBusy' = TRUE
    /\ sError' = None
    /\ save' = [pc |-> "auth", ev |-> "started", before |-> jobDb.stops, routeStops |-> routeStops, routeMiles |-> routeMiles, form |-> Some(form)]
    /\ UNCHANGED <<jobDb, form, calc, rows, payVars, routeVars>>

\* getUser, then the validations
SaveAuth ==
    /\ save.pc = "auth"
    /\ \E o \in AuthOutcomes :
          IF o = "authErr" THEN SaveFailed(ErrorText)
          ELSE IF o = "noUser" THEN SaveFailed("You must be signed in.")
          ELSE IF IsSome(SaveValidation(save.form[1])) THEN SaveFailed(SaveValidation(save.form[1])[1])
          ELSE save' = [save EXCEPT !.pc = "job"] /\ UNCHANGED <<sBusy, sError, form>>
    /\ UNCHANGED <<jobDb, calc, rows, payVars, routeVars>>

\* the insert or the update of the jobs row
SaveJob ==
    /\ save.pc = "job"
    /\ LET f == save.form[1]
           plannedMiles == IF Len(save.routeStops) # 0 THEN save.routeMiles ELSE None
       IN  \/ /\ jobDb' = [jobDb EXCEPT !.job = Some([ref |-> toUpperCase(trim(f.jobRef)), miles |-> plannedMiles])]
              /\ save' = [save EXCEPT !.pc = "alloc"]
              /\ UNCHANGED <<sBusy, sError, form>>
           \/ /\ SaveFailed(ErrorText)
              /\ UNCHANGED jobDb
           \/ /\ SaveFailed(IF f.isEdit THEN "Job updated but no id returned." ELSE "Job created but no id returned.")
              /\ UNCHANGED jobDb
    /\ UNCHANGED <<calc, rows, payVars, routeVars>>

\* the upsert of the job_allocations row; without a route save() ends here
SaveAllocation ==
    /\ save.pc = "alloc"
    /\ \/ /\ jobDb' = [jobDb EXCEPT !.alloc = TRUE]
          /\ IF Len(save.routeStops) # 0
             THEN save' = [save EXCEPT !.pc = "delete"] /\ UNCHANGED <<sBusy, sError, form>>
             ELSE SaveDone
       \/ /\ SaveFailed(ErrorText)
          /\ UNCHANGED jobDb
    /\ UNCHANGED <<calc, rows, payVars, routeVars>>

\* job_stops delete().eq("job_id", jobId)
SaveDeleteStops ==
    /\ save.pc = "delete"
    /\ \/ /\ jobDb' = [jobDb EXCEPT !.stops = <<>>]
          /\ save' = [save EXCEPT !.pc = "insert"]
          /\ UNCHANGED <<sBusy, sError, form>>
       \/ /\ SaveFailed(ErrorText)
          /\ UNCHANGED jobDb
    /\ UNCHANGED <<calc, rows, payVars, routeVars>>

\* job_stops insert(stopRows): one statement for all rows
SaveInsertStops ==
    /\ save.pc = "insert"
    /\ \/ /\ jobDb' = [jobDb EXCEPT !.stops = save.routeStops]
          /\ SaveDone
       \/ /\ SaveFailed(ErrorText)
          /\ UNCHANGED jobDb
    /\ UNCHANGED <<calc, rows, payVars, routeVars>>

----------------------------------------------------------------------------
(* driver_day_entries as its writers address it: every payload carries      *)
(* owner_id = user.id and every upsert names the conflict target            *)
(* owner_id, driver_id, entry_date.  Each action is the write of one        *)
(* handler, made by a signed-in user on a freshly loaded page.              *)

Users == {"u1", "u2"}

\* the dates the users write to
OwnerDates == {0}

OwnerKeys == Users \X Drivers \X OwnerDates

EmptyRows == [k \in OwnerKeys |-> None]

\* supabase upsert with onConflict owner_id,driver_id,entry_date
UpsertRow(tbl, u, d, date, e) == [tbl EXCEPT ![<<u, d, date>>] = Some(e)]

\* supabase delete().eq(driver_id).eq(entry_date): no owner is named
DeleteRows(tbl, d, date) == [k \in OwnerKeys |-> IF k[2] = d /\ k[3] = date THEN None ELSE tbl[k]]

\* what entriesByDriverDate can hold for a driver and a date: the load names
\* no owner and orders by entry_date, and the last row of a key stays
LoadedEntries(tbl, d, date) ==
    LET found == {tbl[k] : k \in {k \in OwnerKeys : k[2] = d /\ k[3] = date /\ IsSome(tbl[k])}}
    IN  IF found = {} THEN {None} ELSE found

OwnersInit == rows = EmptyRows

\* upsertDayEntry by user u
OwnerUpsertDay(u, d, date, status) ==
    /\ \E existing \in LoadedEntries(rows, d, date), reason \in ManualReasons, free \in ManualFreeTexts :
          rows' = UpsertRow(rows, u, d, date, upsertPayload(PayTypeOf(d), status, existing, ManualOpts(status), Some(DefaultLeaveHours), reason, free))
    /\ UNCHANGED <<jobDb, form, save, sBusy, sError, calc, payVars, routeVars>>

\* updateWorkHours by user u
OwnerUpdateHours(u, d, date, hoursStr) ==
    /\ PayTypeOf(d) = "hourly"
    /\ \E entry \in LoadedEntries(rows, d, date) :
          /\ IsSome(entry)
          /\ entry[1].status = "work"
          /\ rows' = UpsertRow(rows, u, d, date, Entry("work", 1, Some(Max(0, clampNum(hoursStr, 0))), entry[1].notes))
    /\ UNCHANGED <<jobDb, form, save, sBusy, sError, calc, payVars, routeVars>>

\* the upsert of syncFromCompletedJobs by user u, for a row of the view
OwnerSyncUpsert(u, d, date) ==
    /\ \E existing \in LoadedEntries(rows, d, date) :
          /\ NeedsUpsert(Signal(Some(d), date), [k \in {<<d, date>>} |-> existing])
          /\ rows' = UpsertRow(rows, u, d, date, AutoWorkEntry)
    /\ UNCHANGED <<jobDb, form, save, sBusy, sError, calc, payVars, routeVars>>

\* clearDayEntry
OwnerClear(d, date) ==
    /\ LoadedEntries(rows, d, date) # {None}
    /\ rows' = DeleteRows(rows, d, date)
    /\ UNCHANGED <<jobDb, form, save, sBusy, sError, calc, payVars, routeVars>>

----------------------------------------------------------------------------
(* computeDriverWeek, applied to a driver and the entries of a week.         *)

\* populated days of the weeks that are enumerated
MaxWeekEntries == 3

\* pay_rate of a driver
PayRates == {None, Some(20), Some(100)}

DriverRows == [pay_type : {"shift", "hourly"}, pay_rate : PayRates]

\* the entry of a day: none, or a row (hours in whole hours)
DayInputs == {None, Some(Entry("work", 1, Some(8), None)), Some(Entry("work", 0, None, None)), Some(Entry("leave", 1, Some(8), None)), Some(Entry("off", 0, Some(0), None)), Some(Entry("off", 1, Some(5), None)), Some(Entry("sick", 0, None, None))}

\* a week with the given entries on its first days
WeekOf(q) == [i \in 1..DaysPerWeek |-> IF i <= Len(q) THEN q[i] ELSE None]

StatusDay(status, hours) == Some(Entry(status, IF status \in {"work", "leave"} THEN 1 ELSE 0, hours, None))

\* the weeks of the two worked examples
ExampleWeeks == {WeekOf(<<StatusDay("work", None), StatusDay("work", None), StatusDay("leave", None), StatusDay("off", None), StatusDay("sick", None)>>), WeekOf(<<StatusDay("work", Some(8)), StatusDay("leave", Some(8)), StatusDay("off", Some(0))>>)}

WeekInputs == {WeekOf(q) : q \in [1..MaxWeekEntries -> DayInputs]} \cup ExampleWeeks

ZeroTotals == [workUnits |-> 0, leaveUnits |-> 0, unpaidUnits |-> 0, hoursWork |-> 0, hoursLeave |-> 0, hoursUnpaid |-> 0]

\* entry.hours ?? 0
hoursOrZero(e) == IF IsSome(e.hours) THEN e.hours[1] ELSE 0

\* the body of the loop with the hours of an off or sick day added to hoursWork
addDayPoolingHours(d, t, eo) ==
    IF ~IsSome(eo) THEN t
    ELSE IF eo[1].status = "leave"
         THEN (IF d.pay_type = "shift" THEN [t EXCEPT !.leaveUnits = @ + eo[1].shifts] ELSE [t EXCEPT !.hoursLeave = @ + hoursOrZero(eo[1])])
    ELSE (IF d.pay_type = "shift" THEN [t EXCEPT !.workUnits = @ + eo[1].shifts] ELSE [t EXCEPT !.hoursWork = @ + hoursOrZero(eo[1])])

\* the body of the loop over weekDates, for one day
addDay(d, t, eo) ==
    IF ~IsSome(eo) THEN t
    ELSE IF eo[1].status = "work"
         THEN (IF d.pay_type = "shift" THEN [t EXCEPT !.workUnits = @ + eo[1].shifts] ELSE [t EXCEPT !.hoursWork = @ + hoursOrZero(eo[1])])
    ELSE IF eo[1].status = "leave"
         THEN (IF d.pay_type = "shift" THEN [t EXCEPT !.leaveUnits = @ + eo[1].shifts] ELSE [t EXCEPT !.hoursLeave = @ + hoursOrZero(eo[1])])
    ELSE (IF d.pay_type = "shift" THEN [t EXCEPT !.unpaidUnits = @ + 1] ELSE [t EXCEPT !.hoursUnpaid = @ + hoursOrZero(eo[1])])

\* the loop over weekDates
RECURSIVE weekTotals(_, _, _)
weekTotals(d, week, n) == IF n = 0 THEN ZeroTotals ELSE addDay(d, weekTotals(d, week, n - 1), week[n])

\* the amount with unpaid units and hours paid too
weekAmountPayingUnpaid(d, t) ==
    LET rate == IF IsSome(d.pay_rate) THEN d.pay_rate[1] ELSE 0
    IN  IF d.pay_type = "shift" THEN (t.workUnits + t.leaveUnits + t.unpaidUnits) * rate ELSE (t.hoursWork + t.hoursLeave + t.hoursUnpaid) * rate

\* amount, from the totals and d.pay_rate ?? 0
weekAmount(d, t) ==
    LET rate == IF IsSome(d.pay_rate) THEN d.pay_rate[1] ELSE 0
    IN  IF d.pay_type = "shift" THEN (t.workUnits + t.leaveUnits) * rate ELSE (t.hoursWork + t.hoursLeave) * rate

computeDriverWeek(d, week) ==
    LET t == weekTotals(d, week, Len(week))
    IN  [workUnits |-> t.workUnits, leaveUnits |-> t.leaveUnits, unpaidUnits |-> t.unpaidUnits, hoursWork |-> t.hoursWork, hoursLeave |-> t.hoursLeave, hoursUnpaid |-> t.hoursUnpaid, amount |-> weekAmount(d, t)]

CalcNone == [pc |-> "none"]

WeekInit == calc \in {[pc |-> "in", d |-> d, week |-> w, out |-> computeDriverWeek(d, WeekOf(<<>>))] : d \in DriverRows, w \in WeekInputs}

\* a row of the table is rendered: computeDriverWeek(d)
ComputeWeek ==
    /\ calc.pc = "in"
    /\ calc' = [calc EXCEPT !.pc = "out", !.out = computeDriverWeek(calc.d, calc.week)]
    /\ UNCHANGED <<jobDb, form, save, sBusy, sError, rows, payVars, routeVars>>

----------------------------------------------------------------------------
(* normKey and formatUKPostcode, applied to a typed text and to their own    *)
(* results.                                                                  *)

\* length of the texts that are enumerated
MaxPostcodeLen == 5

PostcodeChars == {"a", "B", "1", Space}

PostcodeTexts == UNION {[1..n -> PostcodeChars] : n \in 0..MaxPostcodeLen}

PostcodeInit == calc \in {[pc |-> "typed", x |-> x, key |-> <<>>, pretty |-> <<>>, keyOfKey |-> <<>>, prettyOfPretty |-> <<>>, keyOfPretty |-> <<>>] : x \in PostcodeTexts}

\* the input is canonicalized (onBlur, confirm)
Canonicalize ==
    /\ calc.pc = "typed"
    /\ calc' = [calc EXCEPT !.pc = "once", !.key = normKey(calc.x), !.pretty = formatUKPostcode(calc.x)]
    /\ UNCHANGED <<jobDb, form, save, sBusy, sError, rows, payVars, routeVars>>

\* the results are canonicalized again (a second onBlur, confirm's lookup key)
Recanonicalize ==
    /\ calc.pc = "once"
    /\ calc' = [calc EXCEPT !.pc = "twice", !.keyOfKey = normKey(calc.key), !.prettyOfPretty = formatUKPostcode(calc.pretty), !.keyOfPretty = normKey(calc.pretty)]
    /\ UNCHANGED <<jobDb, form, save, sBusy, sError, rows, payVars, routeVars>>

----------------------------------------------------------------------------
(* localDatetimeToIso and isoToLocalDatetime, applied to the planned time    *)
(* typed for a stop (confirm) and to the stored instant (prefill effect).    *)

\* wall-clock values of a datetime-local input
TimeTexts == {WallClock(y, d, h, m) : y \in {<<"0", "0", "2", "5">>, <<"0", "9", "9", "9">>, <<"2", "0", "2", "5">>}, d \in {<<"0", "0", "0">>, <<"0", "0", "1">>, <<"3", "6", "4">>}, h \in {<<"0", "0">>, <<"0", "9">>, <<"2", "3">>}, m \in {<<"0", "0">>, <<"3", "0">>, <<"5", "9">>}}

TimeInit == calc \in {[pc |-> "local", t |-> t, iso |-> 0, back |-> t] : t \in TimeTexts}

\* confirm: planned_time of a final stop
StoreTime ==
    /\ calc.pc = "local"
    /\ calc' = [calc EXCEPT !.pc = "iso", !.iso = localDatetimeToIso(calc.t)]
    /\ UNCHANGED <<jobDb, form, save, sBusy, sError, rows, payVars, routeVars>>

\* the prefill effect: planned_time of a draft
ShowTime ==
    /\ calc.pc = "iso"
    /\ calc' = [calc EXCEPT !.pc = "shown", !.back = isoToLocalDatetime(calc.iso)]
    /\ UNCHANGED <<jobDb, form, save, sBusy, sError, rows, payVars, routeVars>>

----------------------------------------------------------------------------
(* The loop of syncFromCompletedJobs, run over a list of signals and over a  *)
(* permutation of it, from the same table and the same snapshot.             *)

\* the loop over list from position i, ended by the first skipped row
RECURSIVE syncLoopEndingAtSkip(_, _, _, _, _)
syncLoopEndingAtSkip(tbl, snap, list, rejected, i) ==
    IF i > Len(list) THEN tbl
    ELSE IF ~NeedsUpsert(list[i], snap) THEN tbl
    ELSE IF SignalKey(list[i]) \in rejected THEN tbl
    ELSE syncLoopEndingAtSkip(Upsert(tbl, SignalKey(list[i]), AutoWorkEntry), snap, list, rejected, i + 1)

\* the loop over list from position i: a skipped row continues, an upsert
\* that the store rejects (a key in rejected) throws and ends the run
RECURSIVE syncLoop(_, _, _, _, _)
syncLoop(tbl, snap, list, rejected, i) ==
    IF i > Len(list) THEN tbl
    ELSE IF ~NeedsUpsert(list[i], snap) THEN syncLoop(tbl, snap, list, rejected, i + 1)
    ELSE IF SignalKey(list[i]) \in rejected THEN tbl
    ELSE syncLoop(Upsert(tbl, SignalKey(list[i]), AutoWorkEntry), snap, list, rejected, i + 1)

\* rows of the view for the lists of the runs
OrderSignals == {Signal(Some("d1"), 0), Signal(Some("d2"), 0), Signal(None, 0)}

\* the lists that hold every row once
OrderLists == {q \in [1..Cardinality(OrderSignals) -> OrderSignals] : \A g \in OrderSignals : \E i \in 1..Len(q) : q[i] = g}

\* keys whose upsert the store rejects: none, or those of one driver
RejectedKeys == {{}, {<<"d2", 0>>}}

OrderInit == calc \in {[pc |-> "in", store |-> st, snap |-> sn, list |-> q, perm |-> q2, rejected |-> rj, out1 |-> st, out2 |-> st] : st \in SeedStores, sn \in {EmptyTable} \cup SeedStores, q \in OrderLists, q2 \in OrderLists, rj \in RejectedKeys}

\* the two runs
RunBothOrders ==
    /\ calc.pc = "in"
    /\ calc' = [calc EXCEPT !.pc = "out", !.out1 = syncLoop(calc.store, calc.snap, calc.list, calc.rejected, 1), !.out2 = syncLoop(calc.store, calc.snap, calc.perm, calc.rejected, 1)]
    /\ UNCHANGED <<jobDb, form, save, sBusy, sError, rows, payVars, routeVars>>

----------------------------------------------------------------------------
(* The week controls of the driver-pay page: the calendar functions and the  *)
(* handlers that set weekStart.  A date is its day number; day 0 is Monday   *)
(* 1 January of EpochYear.  A value of the week input is kept in tenths.     *)

\* the year of day 0
EpochYear == 2024

\* the years the day numbering covers
CalendarYears == EpochYear..(EpochYear + 4)

IsLeapYear(y) == (y % 4 = 0 /\ y % 100 # 0) \/ y % 400 = 0

\* new Date(y, 0, 1)
RECURSIVE Jan1(_)
Jan1(y) == IF y <= EpochYear THEN 0 ELSE Jan1(y - 1) + DaysPerYear + (IF IsLeapYear(y - 1) THEN 1 ELSE 0)

\* Date.getFullYear
getFullYear(n) == CHOOSE y \in CalendarYears : Jan1(y) <= n /\ n < Jan1(y + 1)

\* Date.getDay: 0 Sunday ... 6 Saturday
getDay(n) == (n + 1) % DaysPerWeek

startOfWeekMonday(n) == n + ((IF getDay(n) = 0 THEN -6 ELSE 1) - getDay(n))

addDays(n, days) == n + days

\* getDay() || 7
isoDay(n) == IF getDay(n) = 0 THEN 7 ELSE getDay(n)

\* week1Monday of getISOWeekInfo and mondayFromISOWeek
week1Monday(isoYear) == (Jan1(isoYear) + 3) - (isoDay(Jan1(isoYear) + 3) - 1)

\* Math.round of diff / 7, for diff >= 0
roundWeeks(diff) == (2 * diff + DaysPerWeek) \div (2 * DaysPerWeek)

getISOWeekInfo(n) ==
    LET d == n + (4 - isoDay(n))
        isoYear == getFullYear(d)
    IN  [isoYear |-> isoYear, week |-> 10 * (1 + roundWeeks(d - week1Monday(isoYear)))]

\* setDate takes the integer part of week1Monday.getDate() + (week - 1) * 7
mondayFromISOWeek(isoYear, week) == week1Monday(isoYear) + ((week - 10) * DaysPerWeek) \div 10

\* Number(e.target.value) of the week input, in tenths
NumberInTenths(s) ==
    IF \E i \in 1..Len(s) : s[i] = "."
    THEN LET i == CHOOSE j \in 1..Len(s) : s[j] = "."
         IN  NumberOf(SubSeq(s, 1, i - 1)) * 10 + NumberOf(SubSeq(s, i + 1, i + 1))
    ELSE NumberOf(s) * 10

Min(a, b) == IF a <= b THEN a ELSE b

\* texts typed into the week input (type number, min 1, max 53)
WeekTexts == {<<>>, <<"0">>, <<"1">>, <<"1", ".", "5">>, <<"2", "7">>, <<"5", "3">>, <<"6", "0">>}

\* years typed into the year input
JumpYears == {EpochYear, EpochYear + 1, EpochYear + 2}

\* dates chosen in the date picker
PickedDates == {0, 3, 6, 59, 364, 365, 366, 734}

\* new Date() at the first render
Todays == {3, 366}

\* last day number the week buttons reach
MaxWeekStart == 1099

\* weekStart, jumpYear and jumpWeek after the first render
WeekControls(ws) == [pc |-> "week", weekStart |-> ws, jumpYear |-> getISOWeekInfo(ws).isoYear, jumpWeek |-> getISOWeekInfo(ws).week]

CalendarInit == calc \in {WeekControls(startOfWeekMonday(today)) : today \in Todays}

\* setWeekStart, then the effect on isoInfo.isoYear and isoInfo.week
setWeekStart(ws) ==
    /\ calc.pc = "week"
    /\ calc' = IF getISOWeekInfo(ws) = getISOWeekInfo(calc.weekStart) THEN [calc EXCEPT !.weekStart = ws] ELSE WeekControls(ws)
    /\ UNCHANGED <<jobDb, form, save, sBusy, sError, rows, payVars, routeVars>>

prevWeekButton ==
    /\ calc.pc = "week"
    /\ addDays(calc.weekStart, -DaysPerWeek) >= 0
    /\ setWeekStart(addDays(calc.weekStart, -DaysPerWeek))

nextWeekButton ==
    /\ calc.pc = "week"
    /\ addDays(calc.weekStart, DaysPerWeek) <= MaxWeekStart
    /\ setWeekStart(addDays(calc.weekStart, DaysPerWeek))

setJumpWeek(text) ==
    /\ calc.pc = "week"
    /\ calc' = [calc EXCEPT !.jumpWeek = NumberInTenths(text)]
    /\ UNCHANGED <<jobDb, form, save, sBusy, sError, rows, payVars, routeVars>>

setJumpYear(y) ==
    /\ calc.pc = "week"
    /\ calc' = [calc EXCEPT !.jumpYear = y]
    /\ UNCHANGED <<jobDb, form, save, sBusy, sError, rows, payVars, routeVars>>

jumpToWeek ==
    /\ calc.pc = "week"
    /\ LET wk == Max(10, Min(530, calc.jumpWeek))
           yr == calc.jumpYear
           monday == mondayFromISOWeek(yr, wk)
       IN  monday <= MaxWeekStart /\ setWeekStart(monday)

pickDate(picked) ==
    /\ calc.pc = "week"
    /\ setWeekStart(startOfWeekMonday(picked))

----------------------------------------------------------------------------
(* POST of /api/route-miles, applied to the body of any request.             *)

\* longest coords array of a request
MaxCoords == 3

\* a JSON value of a lat or lng field: a number, null, or a missing field
JsonNumber(v) == [t |-> "number", v |-> v]

JsonNull == [t |-> "null", v |-> 0]

JsonMissing == [t |-> "undefined", v |-> 0]

\* Number(c?.lat): null gives 0, a missing field gives NaN
Number(x) == CASE x.t = "number" -> Some(x.v) [] x.t = "null" -> Some(0) [] OTHER -> NaN

\* coordsRaw.map(c => ({lat: Number(c?.lat), lng: Number(c?.lng)}))
mapCoords(coordsRaw) == [i \in 1..Len(coordsRaw) |-> [lat |-> Number(coordsRaw[i].lat), lng |-> Number(coordsRaw[i].lng)]]

\* the points a request may hold
RawPoints == {[lat |-> JsonNumber(53), lng |-> JsonNumber(-3)], [lat |-> JsonNumber(54), lng |-> JsonNumber(-2)], [lat |-> JsonMissing, lng |-> JsonNumber(-3)], [lat |-> JsonNull, lng |-> JsonNumber(-1)]}

RawBodies == UNION {[1..n -> RawPoints] : n \in 0..MaxCoords}

MilesInit == calc \in {[pc |-> "request", coordsRaw |-> b, out |-> [status |-> 0, miles |-> None, path |-> <<>>]] : b \in RawBodies}

\* the handler, with the answer of the routing provider
PostRouteMiles(up) ==
    /\ calc.pc = "request"
    /\ calc' = [calc EXCEPT !.pc = "response", !.out = RouteMilesPOST(mapCoords(calc.coordsRaw), up)]
    /\ UNCHANGED <<jobDb, form, save, sBusy, sError, rows, payVars, routeVars>>

----------------------------------------------------------------------------
(* Specifications.                                                           *)

\* the driver-pay page
Next ==
    \/ \E l \in loads : LoadQueries(l)
    \/ \E l \in loads : LoadPayroll(l)
    \/ prevWeek
    \/ nextWeek
    \/ SyncClick
    \/ SyncAuth
    \/ SyncQuery
    \/ SyncUpsert
    \/ \E d \in Drivers : openDriverDetail(d)
    \/ closeModal
    \/ \E date \in Dates, status \in Statuses : upsertDayEntry(date, status)
    \/ \E date \in Dates : clearDayEntry(date)
    \/ \E date \in Dates, h \in HoursInputs : updateWorkHours(date, h)
    \/ DayAuth
    \/ \E d \in Drivers : setPaid(d)
    \/ \E c \in paidCalls : PaidAuth(c)
    \/ \E c \in paidCalls : PaidWrite(c)
    \/ DayWrite

\* the components that take no part in a specification stay as they start
SaveAtRest == form = [open |-> FALSE, isEdit |-> FALSE, jobRef |-> <<>>, customerId |-> "", jobDate |-> "", amount |-> ""] /\ jobDb = NoJobDb /\ save = SaveIdle /\ sBusy = FALSE /\ sError = None

OthersAtRest == SaveAtRest /\ OwnersInit /\ calc = CalcNone

PayAtRest == PayInit /\ store = EmptyTable

RouteAtRest == RouteInit /\ routeStops = <<>>

Init == PayInit /\ RouteAtRest /\ OthersAtRest

Spec == Init /\ [][Next]_vars

\* the route modal
NextRoute ==
    \/ OpenRoute
    \/ CloseRoute
    \/ \E v \in TypedPostcodes : setCollectionPostcode(v)
    \/ blurCollectionPostcode
    \/ \E t \in TypedTimes : setCollectionTime(t)
    \/ \E v \in TypedPostcodes : setDeliveryPostcode(v)
    \/ blurDeliveryPostcode
    \/ \E t \in TypedTimes : setDeliveryTime(t)
    \/ addStop
    \/ \E i \in 1..Len(stops) : removeStop(i)
    \/ \E i \in 1..Len(stops), v \in TypedPostcodes : updateStopPostcode(i, v)
    \/ \E i \in 1..Len(stops) : blurStopPostcode(i)
    \/ \E i \in 1..Len(stops), t \in TypedTimes : updateStopTime(i, t)
    \/ confirm
    \/ GeocodeFetchFailed
    \/ GeocodeResponse
    \/ MilesFetchFailed
    \/ MilesResponse

InitRoute == RouteInit /\ PayAtRest /\ OthersAtRest

SpecRoute == InitRoute /\ [][NextRoute]_vars

\* RouteModal opened, closed and confirmed, with the collection postcode
\* edited, when every pending fetch of confirm() resolves or rejects
NextConfirm ==
    \/ OpenRoute
    \/ CloseRoute
    \/ \E v \in TypedPostcodes : setCollectionPostcode(v)
    \/ confirm
    \/ GeocodeFetchFailed
    \/ GeocodeResponse
    \/ MilesFetchFailed
    \/ MilesResponse

FetchSettles == WF_vars(GeocodeFetchFailed \/ GeocodeResponse) /\ WF_vars(MilesFetchFailed \/ MilesResponse)

SpecRouteLive == InitRoute /\ [][NextConfirm]_vars /\ FetchSettles

\* AddJobModal.save
NextSave ==
    \/ SaveClick
    \/ SaveAuth
    \/ SaveJob
    \/ SaveAllocation
    \/ SaveDeleteStops
    \/ SaveInsertStops

InitSave == SaveInit /\ RouteInit /\ PayAtRest /\ OwnersInit /\ calc = CalcNone

SpecSave == InitSave /\ [][NextSave]_vars

\* the writers of driver_day_entries, by owner
NextOwners ==
    \/ \E u \in Users, d \in Drivers, date \in OwnerDates, status \in Statuses : OwnerUpsertDay(u, d, date, status)
    \/ \E u \in Users, d \in Drivers, date \in OwnerDates, h \in HoursInputs : OwnerUpdateHours(u, d, date, h)
    \/ \E u \in Users, d \in Drivers, date \in OwnerDates : OwnerSyncUpsert(u, d, date)
    \/ \E d \in Drivers, date \in OwnerDates : OwnerClear(d, date)

InitOwners == OwnersInit /\ PayAtRest /\ RouteAtRest /\ SaveAtRest /\ calc = CalcNone

SpecOwners == InitOwners /\ [][NextOwners]_vars

\* computeDriverWeek
NextCompute == ComputeWeek

InitWeek == WeekInit /\ PayAtRest /\ RouteAtRest /\ SaveAtRest /\ OwnersInit

SpecWeek == InitWeek /\ [][NextCompute]_vars

\* normKey and formatUKPostcode
NextPostcode ==
    \/ Canonicalize
    \/ Recanonicalize

InitPostcode == PostcodeInit /\ PayAtRest /\ RouteAtRest /\ SaveAtRest /\ OwnersInit

SpecPostcode == InitPostcode /\ [][NextPostcode]_vars

\* localDatetimeToIso and isoToLocalDatetime
NextTime ==
    \/ StoreTime
    \/ ShowTime

InitTime == TimeInit /\ PayAtRest /\ RouteAtRest /\ SaveAtRest /\ OwnersInit

SpecTime == InitTime /\ [][NextTime]_vars

\* the sync loop over a list and a permutation of it
NextOrder == RunBothOrders

InitOrder == OrderInit /\ PayAtRest /\ RouteAtRest /\ SaveAtRest /\ OwnersInit

SpecOrder == InitOrder /\ [][NextOrder]_vars

\* the week controls of the driver-pay page
NextCalendar ==
    \/ prevWeekButton
    \/ nextWeekButton
    \/ \E text \in WeekTexts : setJumpWeek(text)
    \/ \E y \in JumpYears : setJumpYear(y)
    \/ jumpToWeek
    \/ \E picked \in PickedDates : pickDate(picked)

InitCalendar == CalendarInit /\ PayAtRest /\ RouteAtRest /\ SaveAtRest /\ OwnersInit

SpecCalendar == InitCalendar /\ [][NextCalendar]_vars

\* the route-miles endpoint
NextMiles == \E up \in RouterResponses : PostRouteMiles(up)

InitMiles == MilesInit /\ PayAtRest /\ RouteAtRest /\ SaveAtRest /\ OwnersInit

SpecMiles == InitMiles /\ [][NextMiles]_vars

----------------------------------------------------------------------------
(* Properties of syncFromCompletedJobs, under Spec.                          *)

\* C1: a write of syncFromCompletedJobs never replaces a stored day entry
\* whose stored status is leave, off or sick, whatever page operations came
\* before the run.
C1_SyncKeepsProtected == hist.ev = "wrote" => ~(IsSome(hist.before) /\ isProtectedStatus(hist.before[1].status))

\* C2: a write of syncFromCompletedJobs never replaces a stored work entry
\* whose notes begin with the manual marker: status, shifts, hours and
\* notes of such an entry are after the sync what they were before it.
C2_SyncKeepsManualWork == hist.ev = "wrote" => ~(IsSome(hist.before) /\ hist.before[1].status = "work" /\ IsManualNote(hist.before))

\* C3: the sync is idempotent: a run for the week of the run before it,
\* started on the store as that run (reload included) left it, changes no
\* row of that store.
C3_SyncIdempotent == (hist.ev = "wrote" /\ IsSome(hist.base)) => (hist.before = hist.base[1].store[hist.k] => hist.before = Some(AutoWorkEntry))

\* C4: every upsert of the sync goes to a key that holds no entry and stores
\* there status work, shifts 1, hours null and the auto marker as notes: to
\* a key that holds an entry the sync issues no write.
C4_SyncOnlyCreates == [][hist'.n = hist.n + 1 => (store[hist'.k] = None /\ store'[hist'.k] = Some(AutoWorkEntry))]_vars

\* C5: when the upsert of the k-th signal of a run fails, the run stops: that
\* step leaves the store as the earlier upserts made it, starts no load,
\* sets an error message and sets syncingJobs to false, and no upsert of the
\* run is in flight as long as that failure is its last event.
C5_FailedUpsertStopsRun ==
    /\ [](hist.ev = "upsertFailed" => (sync = SyncIdle /\ ~syncingJobs))
    /\ [][(sync.pc = "upsert" /\ hist'.ev = "upsertFailed") => (store' = store /\ loads' = loads /\ IsSome(error') /\ syncingJobs' = FALSE /\ sync' = SyncIdle /\ hist'.n = hist.n)]_vars

\* C5: the second upsert of a run has failed after the first one was stored
C5_Witness == hist.ev = "upsertFailed" /\ hist.n >= 1 /\ IsSome(error) /\ ~syncingJobs /\ (\E k \in Keys : k # hist.k /\ store[k] = Some(AutoWorkEntry))

----------------------------------------------------------------------------
(* Properties of RouteModal.confirm, under SpecRoute.                        *)

\* C6: every stop of a result delivered through onConfirm has a lat and a
\* lng that are not null, and the drafts of a delivered result all had a
\* non-empty postcode that the geocoding response resolved.
C6_DeliveredStopsHaveCoords ==
    /\ delivered > 0 => \A i \in 1..Len(routeStops) : IsSome(routeStops[i].lat) /\ IsSome(routeStops[i].lng)
    /\ rhist.ev = "confirmed" => \A i \in 1..Len(rhist.drafts) :
          LET key == normKey(rhist.drafts[i].postcode)
          IN  key # <<>> /\ key \in DOMAIN rhist.results /\ IsSome(rhist.results[key].lat) /\ IsSome(rhist.results[key].lng)

\* C6: a result of three stops has been delivered
C6_Witness == delivered > 0 /\ rhist.ev = "confirmed" /\ Len(routeStops) = 3 /\ ~routeOpen

\* C7: a request to /api/route-miles is sent only in the step that receives
\* a geocoding response of status 200 that gives every submitted key a lat
\* and a lng.
C7_MilesOnlyAfterFullGeocode ==
    [][milesCalls' # milesCalls =>
         /\ conf.pc = "geo"
         /\ rhist'.status = 200
         /\ \A i \in 1..Len(conf.postcodes) :
               /\ conf.postcodes[i] \in DOMAIN rhist'.results
               /\ IsSome(rhist'.results[conf.postcodes[i]].lat)
               /\ IsSome(rhist'.results[conf.postcodes[i]].lng)]_vars

\* C7: a response of status 200 left a submitted key without coordinate, and
\* the run ended with no request to /api/route-miles
C7_Witness == rhist.ev = "geoFailed" /\ rhist.status = 200 /\ milesCalls = 0 /\ rError = Some("Postcode(s) not found") /\ (\E i \in 1..Len(rhist.postcodes) : IsNullish(rhist.results, rhist.postcodes[i]))

\* C8: a step in which confirm fails (validation, geocoding or routing)
\* calls no onConfirm, sends no request, leaves the modal open or closed as
\* it was, sets the error message and sets busy to false, and nothing of the
\* run stays in flight; onConfirm is called only in the step that receives a
\* successful routing response after a successful geocoding response.
C8_FailureIsTerminal ==
    /\ [][(rhist' # rhist /\ rhist'.ev \in {"invalid", "geoFailed", "milesFailed"}) =>
            /\ delivered' = delivered /\ routeStops' = routeStops /\ routeMiles' = routeMiles
            /\ geoCalls' = geoCalls /\ milesCalls' = milesCalls
            /\ routeOpen' = routeOpen /\ IsSome(rError') /\ rBusy' = FALSE /\ conf' = ConfIdle]_vars
    /\ [][delivered' # delivered => (conf.pc = "miles" /\ rhist.ev = "milesSent" /\ rhist.status = 200 /\ rhist'.ev = "confirmed")]_vars

\* C8: geocoding succeeded and routing failed: nothing was delivered and the
\* modal is open with the error
C8_Witness == rhist.ev = "milesFailed" /\ geoCalls = 1 /\ milesCalls = 1 /\ delivered = 0 /\ routeOpen /\ IsSome(rError) /\ ~rBusy /\ conf = ConfIdle

\* C9: a delivered result has as many stops as the drafts that were
\* submitted, stop i being draft i (its postcode formatted, its name) with
\* stop_order i, and a total distance that is not negative.
C9_DeliveredRouteShape ==
    rhist.ev = "confirmed" =>
       /\ Len(rhist.drafts) >= 2
       /\ Len(routeStops) = Len(rhist.drafts)
       /\ \A i \in 1..Len(routeStops) :
             /\ routeStops[i].stop_order = i
             /\ routeStops[i].postcode = formatUKPostcode(rhist.drafts[i].postcode)
             /\ routeStops[i].name = Some(rhist.drafts[i].name)
       /\ IsSome(routeMiles) /\ routeMiles[1] >= 0

\* C9: collection, one stop and delivery were delivered as stops 1, 2, 3
C9_Witness == rhist.ev = "confirmed" /\ Len(rhist.drafts) = 3 /\ routeStops[3].stop_order = 3 /\ routeStops[3].name = Some("Delivery") /\ IsSome(routeMiles) /\ routeMiles[1] > 0

\* C10: a click on Confirm with fewer than 2 non-empty normalized postcodes
\* sets the validation error in that step and requests neither endpoint.
C10_ValidationBeforeNetwork ==
    [][(rhist'.n = rhist.n + 1 /\ Len(SelectSeq([i \in 1..Len(allDraft) |-> normKey(allDraft[i].postcode)], LAMBDA k : k # <<>>)) < 2) =>
         /\ rError' = Some("Please enter at least collection and delivery postcodes.")
         /\ geoCalls' = geoCalls /\ milesCalls' = milesCalls
         /\ conf' = ConfIdle /\ rBusy' = FALSE /\ delivered' = delivered]_vars

\* C10: confirm was refused with one postcode entered, no request sent
C10_Witness == rhist.ev = "invalid" /\ Len(rhist.postcodes) = 1 /\ geoCalls = 0 /\ milesCalls = 0 /\ IsSome(rError) /\ ~rBusy

\* C11: the body of a request to /api/geocode holds every distinct
\* canonical key of the drafts exactly once, also when two drafts share a
\* postcode.
C11_GeocodeBatchDeduplicated ==
    rhist.ev \in {"geoSent", "geoFailed", "milesSent", "milesFailed", "confirmed"} =>
       /\ \A i, j \in 1..Len(rhist.postcodes) : rhist.postcodes[i] = rhist.postcodes[j] => i = j
       /\ {rhist.postcodes[i] : i \in 1..Len(rhist.postcodes)} = {normKey(rhist.drafts[i].postcode) : i \in 1..Len(rhist.drafts)} \ {<<>>}

\* C12: a geocoding response of status 200 has an entry, a pair or null,
\* for every key that was submitted.
C12_GeocodeAnswersEveryKey ==
    (rhist.ev \in {"geoFailed", "milesSent", "milesFailed", "confirmed"} /\ rhist.status = 200) =>
       \A i \in 1..Len(rhist.postcodes) : rhist.postcodes[i] \in DOMAIN rhist.results

\* C13: the step that receives the answer of a routing service that found
\* no route or gave no numeric distance fails the submission: it sets the
\* error and delivers nothing through onConfirm.
C13_NoDistanceFailsConfirm ==
    [][(conf.pc = "miles" /\ conf'.pc = "idle" /\ IsSome(rhist'.router) /\ ~(rhist'.router[1].kind = "ok" /\ IsSome(rhist'.router[1].distance))) =>
         (rhist'.ev = "milesFailed" /\ delivered' = delivered /\ routeStops' = routeStops /\ routeMiles' = routeMiles /\ IsSome(rError'))]_vars

\* C13: the routing service answered without a distance and confirm failed
C13_Witness == rhist.ev = "milesFailed" /\ rhist.router = Some([kind |-> "ok", distance |-> None]) /\ delivered = 0 /\ IsSome(rError) /\ routeOpen

----------------------------------------------------------------------------
(* Properties of computeDriverWeek, under SpecWeek.                          *)

\* the days of a week whose entry has one of the statuses
DaysWith(week, statuses) == {i \in 1..Len(week) : IsSome(week[i]) /\ week[i][1].status \in statuses}

\* the recorded hours of the first n days that have one of the statuses
RECURSIVE RecordedHours(_, _, _)
RecordedHours(week, statuses, n) == IF n = 0 THEN 0 ELSE RecordedHours(week, statuses, n - 1) + (IF n \in DaysWith(week, statuses) /\ IsSome(week[n][1].hours) THEN week[n][1].hours[1] ELSE 0)

\* C14: for a shift driver every work day counts 1 into workUnits and every
\* leave day 1 into leaveUnits, whatever hours and shifts the entry records.
C14_ShiftDayCountsOne ==
    (calc.pc = "out" /\ calc.d.pay_type = "shift") =>
       /\ calc.out.workUnits = Cardinality(DaysWith(calc.week, {"work"}))
       /\ calc.out.leaveUnits = Cardinality(DaysWith(calc.week, {"leave"}))

\* C15: for an hourly driver hoursWork and hoursLeave are the recorded hours
\* of the work and leave days, and off and sick days add 0 hours to every
\* total, also when their entry records hours.
C15_HourlyTotals ==
    (calc.pc = "out" /\ calc.d.pay_type = "hourly") =>
       /\ calc.out.hoursWork = RecordedHours(calc.week, {"work"}, Len(calc.week))
       /\ calc.out.hoursLeave = RecordedHours(calc.week, {"leave"}, Len(calc.week))
       /\ calc.out.hoursUnpaid = 0

\* C15 (amended): for an hourly driver hoursWork and hoursLeave are the
\* recorded hours of the work and leave days; an off or sick day adds nothing
\* to them, and its recorded hours are added to hoursUnpaid.
C15_HourlyPaidTotals ==
    (calc.pc = "out" /\ calc.d.pay_type = "hourly") =>
       /\ calc.out.hoursWork = RecordedHours(calc.week, {"work"}, Len(calc.week))
       /\ calc.out.hoursLeave = RecordedHours(calc.week, {"leave"}, Len(calc.week))
       /\ calc.out.hoursUnpaid = RecordedHours(calc.week, {"off", "sick"}, Len(calc.week))

\* C15: an hourly week with a work day of 8 h and an off day recording 5 h
C15_Witness == calc.pc = "out" /\ calc.d.pay_type = "hourly" /\ (\E i \in DaysWith(calc.week, {"off"}) : calc.week[i][1].hours = Some(5)) /\ calc.out.hoursWork = 8 /\ calc.out.hoursUnpaid = 5

\* C16: amount is (workUnits + leaveUnits) * payRate for a shift driver and
\* (hoursWork + hoursLeave) * payRate for an hourly driver, and it is the
\* amount of the same week without its off and sick days.
C16_AmountFormula ==
    calc.pc = "out" =>
       LET rate == IF IsSome(calc.d.pay_rate) THEN calc.d.pay_rate[1] ELSE 0
           paidOnly == [i \in 1..Len(calc.week) |-> IF i \in DaysWith(calc.week, {"off", "sick"}) THEN None ELSE calc.week[i]]
       IN  /\ calc.d.pay_type = "shift" => calc.out.amount = (calc.out.workUnits + calc.out.leaveUnits) * rate
           /\ calc.d.pay_type = "hourly" => calc.out.amount = (calc.out.hoursWork + calc.out.hoursLeave) * rate
           /\ calc.out.amount = computeDriverWeek(calc.d, paidOnly).amount

\* C16: hourly at rate 20 with work 8 h, leave 8 h and off 0 h gives 320
C16_Witness == calc.pc = "out" /\ calc.d = [pay_type |-> "hourly", pay_rate |-> Some(20)] /\ Cardinality(DaysWith(calc.week, {"off"})) = 1 /\ calc.out.hoursWork = 8 /\ calc.out.hoursLeave = 8 /\ calc.out.amount = 320

----------------------------------------------------------------------------
(* Properties of the table driver_day_entries with its owners, under         *)
(* SpecOwners.                                                               *)

\* C17: the table holds at most one entry of a driver and a date, whichever
\* signed-in users wrote to that key.
C17_OneEntryPerDriverDate ==
    \A d \in Drivers, date \in OwnerDates : Cardinality({u \in Users : IsSome(rows[<<u, d, date>>])}) <= 1

----------------------------------------------------------------------------
(* Properties of the driver-pay page's writes in flight, under Spec.         *)

\* C19: the page never has a write of the details modal (savingDay) and an
\* upsert of a sync run (syncingJobs) in flight for the same driver and date.
C19_NoOverlappingEntryWrites ==
    ~(/\ savingDay /\ syncingJobs
      /\ day.pc = "write" /\ sync.pc = "upsert"
      /\ SignalKey(sync.list[sync.i]) = day.k)

----------------------------------------------------------------------------
(* Properties of AddJobModal.save, under SpecSave.                           *)

\* C18: when a run of save() has ended, with success or with an error at
\* any of its steps, the job_stops rows of the job are the rows it started
\* with or the rows of the new route, never none or a part of them.
C18_StopBatchAtomic ==
    (save.pc = "idle" /\ save.ev \in {"saved", "failed"}) =>
       (jobDb.stops = save.before \/ jobDb.stops = save.routeStops)

----------------------------------------------------------------------------
(* Properties of normKey and formatUKPostcode, under SpecPostcode.           *)

\* C20: canonicalizing twice gives what canonicalizing once gives:
\* normKey(normKey(x)) = normKey(x), formatUKPostcode(formatUKPostcode(x)) =
\* formatUKPostcode(x), and normKey(formatUKPostcode(x)) = normKey(x).
C20_CanonicalFormsIdempotent ==
    calc.pc = "twice" =>
       /\ calc.keyOfKey = calc.key
       /\ calc.prettyOfPretty = calc.pretty
       /\ calc.keyOfPretty = calc.key

\* C20: a text with a space and lower case, whose key has more than 3
\* characters, canonicalized twice
C20_Witness == calc.pc = "twice" /\ Len(calc.key) > 3 /\ calc.x # calc.pretty /\ calc.x # calc.key /\ calc.pretty # calc.key /\ (\E i \in 1..Len(calc.x) : calc.x[i] = Space) /\ (\E i \in 1..Len(calc.x) : calc.x[i] = "a")

----------------------------------------------------------------------------
(* Properties of the planned-time conversions, under SpecTime.               *)

\* C21: a wall-clock value converted by localDatetimeToIso and back by
\* isoToLocalDatetime, under the same offset, is the value that was entered.
C21_PlannedTimeRoundTrip ==
    calc.pc = "shown" => calc.back = calc.t

----------------------------------------------------------------------------
(* Properties of the paid checkpoint, under Spec.                            *)

\* C22: a step that changes driver_week_payroll is the upsert of a setPaid
\* call and leaves every day entry unchanged, and a step that changes
\* driver_day_entries (upsertDayEntry, updateWorkHours, clearDayEntry, sync)
\* leaves every driver_week_payroll row unchanged.
C22_PaidIndependentOfEntries ==
    [][/\ payrollDb' # payrollDb => (store' = store /\ day' = day /\ sync' = sync /\ \E c \in paidCalls : c.pc = "write" /\ c \notin paidCalls')
       /\ store' # store => (payrollDb' = payrollDb /\ paidCalls' = paidCalls)]_vars

\* C22: a week marked paid whose day entry was written by another handler
C22_Witness == \E d \in Drivers : IsSome(payrollDb[<<d, 0>>]) /\ payrollDb[<<d, 0>>][1].paid /\ payrollDb[<<d, 0>>][1].paid_at # None /\ store[<<"d2", 0>>] = Some(AutoWorkEntry)

----------------------------------------------------------------------------
(* Properties of the sync loop over permuted signals, under SpecOrder.       *)

----------------------------------------------------------------------------
(* Properties of the week controls, under SpecCalendar.                      *)

\* C24: after prevWeek, nextWeek, jumpToWeek (week clamped to 1..53) and the
\* date picker, weekStart is a Monday, and weekDates are the seven
\* consecutive dates from that Monday to the Sunday.
C24_WeekStartIsMonday ==
    calc.pc = "week" =>
        /\ getDay(calc.weekStart) = 1
        /\ \A date \in weekDates(calc.weekStart) : isoDay(date) = (date - calc.weekStart) + 1

----------------------------------------------------------------------------
(* Properties of the stored day entries, under Spec.                         *)

\* C25: after any sequence of page operations every stored day entry has
\* shifts 0 or 1, and a stored work or leave entry has shifts 1.
C25_ShiftsDomain ==
    \A k \in Keys : IsSome(store[k]) =>
        /\ store[k][1].shifts \in {0, 1}
        /\ store[k][1].status \in {"work", "leave"} => store[k][1].shifts = 1

C25_Witness == \E k \in Keys : PayTypeOf(k[1]) = "shift" /\ IsSome(store[k]) /\ store[k][1].status = "leave" /\ store[k][1].shifts = 1

----------------------------------------------------------------------------
(* Properties of the route-miles endpoint, under SpecMiles.                  *)

\* C26: for every request the endpoint either rejects it (status 400) or
\* sends the provider a path with as many points as the submitted list, in
\* the same order.
C26_PathIsSubmittedList ==
    (calc.pc = "response" /\ calc.out.status # 400) =>
        /\ Len(calc.out.path) = Len(calc.coordsRaw)
        /\ calc.out.path = mapCoords(calc.coordsRaw)

----------------------------------------------------------------------------
(* Properties of the page state the handlers read, under Spec.               *)

\* C27: the snapshot entriesByDriverDate a run of syncFromCompletedJobs
\* takes for its skip rules holds the stored entries of the week whose
\* signals the run queries, also right after a week change and after a
\* failed load.
C27_SnapshotIsSyncWeek ==
    [][(sync.pc = "idle" /\ sync'.pc = "auth") => sync'.snap = SelectWeek(store, sync'.ws)]_vars

\* C28: once every load() has completed, the entries and the payroll rows
\* held in page state are those of the selected weekStart, in whatever order
\* the responses of the loads arrived.
C28_LoadedWeekIsSelectedWeek ==
    loads = {} =>
        /\ \A k \in Keys : IsSome(entries[k]) => InWeek(k[2], weekStart)
        /\ \A d \in Drivers : IsSome(payroll[d]) => payroll[d][1].week_start = weekStart

----------------------------------------------------------------------------
(* Properties of the lifecycle of a day entry, under Spec.                   *)

\* the rows of list the loop passes in a step that moves it from position i
\* to position j
PassedRows(i, j) == {n \in i..(j - 1) : n >= 1}

\* C29: a stored day entry is removed only by the delete of clearDayEntry
\* for its key; and a sync does not pass the signal of a day whose entry
\* was cleared (its snapshot holds no entry for the day) without the upsert
\* that stores the auto work entry for it.
C29_ClearOnlyRemovesAndSyncRecreates ==
    [][/\ \A k \in Keys : (IsSome(store[k]) /\ ~IsSome(store'[k])) => (day.pc = "write" /\ day.kind = "clear" /\ day.k = k)
       /\ (sync.pc \in {"query", "upsert"} /\ sync'.pc \in {"upsert", "load"}) =>
              \A n \in PassedRows(IF sync.pc = "query" THEN 1 ELSE sync.i, sync'.i) :
                  (IsSome(sync'.list[n].driver_id) /\ getEntry(sync'.snap, SignalKey(sync'.list[n])) = None) =>
                      (sync.pc = "upsert" /\ n = sync.i /\ store'[SignalKey(sync'.list[n])] = Some(AutoWorkEntry))]_vars

C29_Witness ==
    /\ hist.ev = "wrote"
    /\ hist.k \in hist.clearedBefore
    /\ getEntry(sync.snap, hist.k) = None
    /\ hist.before = None
    /\ store[hist.k] = Some(AutoWorkEntry)

----------------------------------------------------------------------------
(* Properties of the confirmations of RouteModal, under SpecRouteLive.       *)

\* C30: while busy is true no confirm starts; onConfirm is called at most
\* once for a confirm, by the step that ends its busy period; and when the
\* pending fetches resolve or reject, busy returns to false.
C30_OneConfirmInFlight ==
    /\ [][/\ rBusy => rhist'.n = rhist.n
          /\ delivered' # delivered => (rBusy /\ ~rBusy' /\ delivered' = delivered + 1)]_vars
    /\ [](delivered <= rhist.n)
    /\ (rBusy ~> ~rBusy)

C30_Witness == rhist.n = 2 /\ delivered = 1 /\ ~rBusy /\ rhist.ev = "confirmed" /\ geoCalls = 2

====
